---- MODULE Spec2Model ----
(***************************************************************************)
(* A model of the backtest engine of backtester-rust:                      *)
(*   engine/executor.rs  run_backtest (the bar loop), find_subbar_range,   *)
(*                       resolve_exit, close_position, time helpers        *)
(*   engine/position.rs  sizing, SL/TP/trailing levels, check_sl_tp_hit    *)
(*   engine/orders.rs    entry costs, P&L, commission                      *)
(*   engine/strategy.rs  max_lookback                                      *)
(*                                                                         *)
(* Prices, lots and money are integers (one unit = one pip, pip_size = 1), *)
(* so that every f64 expression of the code is computed exactly.  A        *)
(* datetime string "YYYY-MM-DD HH:MM:SS" is the number of minutes since    *)
(* day 0; its date prefix and its HH, MM fields are derived from it.       *)
(* An Option<T> is a sequence of length 0 (None) or 1 (Some).              *)
(***************************************************************************)
EXTENDS Integers, Sequences, FiniteSets, TLC

VARIABLES
    pc,               \* where run_backtest is: "start", "loop", or how it returned
    strategy,         \* the Strategy argument
    config,           \* the BacktestConfig argument
    data,             \* the candle series' class: the steps of its clock and its prices
    total_bars,       \* candles.len()
    i,                \* the bar index of the loop
    cancel_flag,      \* the shared AtomicBool
    candle,           \* the candle read last (candles[i-1])
    position,         \* Option<OpenPosition>
    equity,           \* realised equity
    peak_equity,
    trades,           \* Vec<TradeResult>
    equity_curve,     \* Vec<EquityPoint>
    drawdown_curve,   \* Vec<DrawdownPoint>
    daily_trade_count,
    current_date,     \* Option: the empty string before the first entry check
    opened,           \* history: the bar and date of every position opened
    obs,              \* history: what the last bar's exit processing saw
    poll_at_set,      \* history: the first poll index at or after the bar at which the flag was set
    tf_ts,            \* find_subbar_range: the TF candles' timestamps
    sub_ts,           \* find_subbar_range: the sub-bars' timestamps
    sub_mode,         \* "None", "Candles" or "Ticks"
    sub_cursor,       \* the sub-bar cursor
    ranges,           \* history: the ranges returned so far, one per TF bar
    args,             \* the arguments of a function applied on its own
    ret,              \* its result
    opt_pc,           \* where the optimizer driver is: "idle", an entry, an evaluation phase, "returned"
    combinations,     \* the parameter vectors of the batch under evaluation
    running,          \* the indices of the batch whose closure is past its flag check
    done,             \* the collected vector: index -> what the closure returned
    opt_ret,          \* Option: what the driver returned
    backtests,        \* history: the evaluations for which run_backtest was called, with the flag then read
    population,       \* run_genetic_algorithm: Vec<Individual>
    gen,              \* run_genetic_algorithm: the generation
    all_results,      \* run_genetic_algorithm: the results of every generation so far
    bred,             \* history, Option: the population last bred from and the one bred
    best_by_gen,      \* history: the best fitness of every evaluated generation
    cmd_results,      \* run_optimization: its "results", under out-of-sample evaluation
    oos_next,         \* run_optimization: the result whose oos_results are next
    oos_seen,         \* history: the shared flag as it stood when each result was evaluated
    cmd_ret,          \* Option: what run_optimization returned
    commands          \* the run commands invoked so far: kind, where each is, and
                      \* (history) whether its cancel command was invoked while it executed

vars == <<pc, strategy, config, data, total_bars, i, cancel_flag, candle, position,
          equity, peak_equity, trades, equity_curve, drawdown_curve, daily_trade_count,
          current_date, opened, obs, poll_at_set, tf_ts, sub_ts, sub_mode, sub_cursor,
          ranges, args, ret, opt_pc, combinations, running, done, opt_ret, backtests,
          population, gen, all_results, bred, best_by_gen, cmd_results, oos_next,
          oos_seen, cmd_ret, commands>>

runVars == <<pc, strategy, config, data, total_bars, i, cancel_flag, candle, position,
             equity, peak_equity, trades, equity_curve, drawdown_curve,
             daily_trade_count, current_date, opened, obs, poll_at_set>>

subVars == <<tf_ts, sub_ts, sub_mode, sub_cursor, ranges>>

fnVars == <<args, ret>>

gaVars == <<population, gen, all_results, bred, best_by_gen>>

cmdVars == <<cmd_results, oos_next, oos_seen, cmd_ret, commands>>

optVars == <<opt_pc, combinations, running, done, opt_ret, backtests, gaVars, cmdVars>>

---------------------------------------------------------------------------
(* Bounds of the model *)

\* the longest candle series of the bar-loop specification
MaxBars == 4
\* candle prices are 1..MaxPrice
MaxPrice == 3
\* the length of the candle series of the exit specification
ExitBars == 3
\* prices and levels of the check_sl_tp_hit specification are 0..MaxLevel
MaxLevel == 3
\* timestamps of the sub-bar specification are 0..MaxTs
MaxTs == 3
\* the longest sub-bar series
MaxSubs == 3
\* the longest TF series of the sub-bar specification
MaxTf == 3
\* the longest rule list of the evaluate_rules specification
MaxRules == 3
\* the number of candles of the single-rule specification
RuleBars == 3
\* the most sub-candles or ticks inside one TF bar
MaxSlice == 2
\* the most run commands invoked
MaxCommands == 3
\* the largest population and the largest number of generations
MaxPop == 2
MaxGen == 2
\* the largest value of a metric, and the longest lists of results and of objectives
MaxMetric == 1
MaxResults == 3
MaxObjectives == 2
\* the longest list of out-of-sample periods
MaxOos == 2
\* the longest list of small parameter ranges, and the largest min, max and step of one
MaxRanges == 2
MaxParam == 2
\* the width of usize in the model: 64 in the build; the model's word is narrow
\* enough for a product of value counts to pass it within the model's integers
UsizeBits == 20

\* executor.rs: "if i % 1000 == 0"
PollInterval == 1000

---------------------------------------------------------------------------
(* Option<T> *)

None == <<>>

Some(x) == <<x>>

IsSome(o) == o # <<>>

Unwrap(o) == o[1]

Max2(a, b) == IF a >= b THEN a ELSE b

Min2(a, b) == IF a <= b THEN a ELSE b

Abs(a) == IF a >= 0 THEN a ELSE 0 - a

Last(s) == s[Len(s)]

\* a quotient n / d of two integers, d > 0
Frac(n, d) == [n |-> n, d |-> d]

FracLess(a, b) == a.n * b.d < b.n * a.d

FracEq(a, b) == a.n * b.d = b.n * a.d

\* the sum of a sequence of numbers
SeqSum(values) ==
    LET sum[k \in 0 .. Len(values)] == IF k = 0 THEN 0 ELSE sum[k - 1] + values[k]
    IN  sum[Len(values)]

---------------------------------------------------------------------------
(* Datetime strings *)

\* &candle.datetime[..10]: the calendar date
DateOf(dt) == dt \div 1440

\* extract_hour_minute: bytes 11..12 and 14..15 of the datetime string
extract_hour_minute(dt) == <<(dt % 1440) \div 60, dt % 60>>

should_close_at_time(close_at, dt) ==
    IF IsSome(close_at)
    THEN LET hm      == extract_hour_minute(dt)
             current == hm[1] * 60 + hm[2]
             target  == Unwrap(close_at).hour * 60 + Unwrap(close_at).minute
         IN  current >= target
    ELSE FALSE

is_within_trading_hours(hours, h, m) ==
    LET current == h * 60 + m
        start   == hours.start_hour * 60 + hours.start_minute
        end     == hours.end_hour * 60 + hours.end_minute
    IN  IF start <= end
        THEN current >= start /\ current <= end
        ELSE current >= start \/ current <= end

---------------------------------------------------------------------------
(* The instrument *)

Instrument == [pip_size |-> 1, pip_value |-> 1, lot_size |-> 1, min_lot |-> 1]

IsLongSide(direction) == direction \in {"Long", "Both"}

---------------------------------------------------------------------------
(* engine/orders.rs *)

\* the integer prices of [0, slippage_pips * pip_size): rand::random::<f64>() is in [0, 1)
RandomSlippage(costs, instrument) ==
    IF costs.slippage_random
    THEN {0} \cup (0 .. (costs.slippage_pips * instrument.pip_size - 1))
    ELSE {costs.slippage_pips * instrument.pip_size}

\* rnd is the slippage drawn, an element of RandomSlippage(costs, instrument)
apply_entry_costs(price, direction, costs, instrument, rnd) ==
    LET spread   == costs.spread_pips * instrument.pip_size
        slippage == rnd
    IN  IF IsLongSide(direction)
        THEN price + spread + slippage
        ELSE price - spread - slippage

\* orders::apply_exit_costs is called by close_position ("slippage on exit")
\* and is not among the sources: the exit pays the slippage against the trader
apply_exit_costs(price, direction, costs, instrument, rnd) ==
    IF IsLongSide(direction)
    THEN price - rnd
    ELSE price + rnd

calculate_pnl_pips(direction, entry_price, exit_price, instrument) ==
    IF instrument.pip_size = 0
    THEN 0
    ELSE IF IsLongSide(direction)
         THEN (exit_price - entry_price) \div instrument.pip_size
         ELSE (entry_price - exit_price) \div instrument.pip_size

calculate_pnl(direction, entry_price, exit_price, lots, instrument) ==
    calculate_pnl_pips(direction, entry_price, exit_price, instrument)
        * instrument.pip_value * lots

\* Percentage is exact when 100 divides the position value times the rate
calculate_commission(costs, lots, entry_price, instrument) ==
    IF costs.commission_type = "FixedPerLot"
    THEN costs.commission_value * lots
    ELSE (entry_price * lots * instrument.lot_size * costs.commission_value) \div 100

---------------------------------------------------------------------------
(* engine/position.rs: sizing and levels *)

\* (raw / min_lot).floor() * min_lot, at least min_lot; \div is the floor
calculate_lots(sizing, eq, entry_price, sl_price, instrument) ==
    LET dist == IF IsSome(sl_price)
                THEN Abs(entry_price - Unwrap(sl_price)) \div instrument.pip_size
                ELSE 0
        clamp(num, den) ==
            Max2((num \div (den * instrument.min_lot)) * instrument.min_lot,
                 instrument.min_lot)
    IN  CASE sizing.sizing_type = "FixedLots" -> clamp(sizing.value, 1)
          [] sizing.sizing_type = "FixedAmount" ->
                IF ~IsSome(sl_price) \/ dist = 0 \/ instrument.pip_value = 0
                THEN instrument.min_lot
                ELSE clamp(sizing.value, dist * instrument.pip_value)
          [] OTHER ->   \* PercentEquity and RiskBased share the formula
                IF ~IsSome(sl_price) \/ dist = 0 \/ instrument.pip_value = 0
                THEN instrument.min_lot
                ELSE clamp(eq * sizing.value, 100 * dist * instrument.pip_value)

\* atr_value is Option; Percentage is exact when 100 divides entry_price * value
calculate_stop_loss(cfg, entry_price, direction, atr_value, instrument) ==
    LET distance ==
            CASE cfg.sl_type = "Pips" -> cfg.value * instrument.pip_size
              [] cfg.sl_type = "Percentage" -> (entry_price * cfg.value) \div 100
              [] OTHER -> (IF IsSome(atr_value) THEN Unwrap(atr_value) ELSE 0) * cfg.value
    IN  IF IsLongSide(direction)
        THEN entry_price - distance
        ELSE entry_price + distance

calculate_take_profit(cfg, entry_price, sl_price, direction, atr_value, instrument) ==
    LET distance ==
            CASE cfg.tp_type = "Pips" -> cfg.value * instrument.pip_size
              [] cfg.tp_type = "RiskReward" ->
                    IF IsSome(sl_price)
                    THEN Abs(entry_price - Unwrap(sl_price)) * cfg.value
                    ELSE cfg.value * instrument.pip_size * 10
              [] OTHER -> (IF IsSome(atr_value) THEN Unwrap(atr_value) ELSE 0) * cfg.value
    IN  IF IsLongSide(direction)
        THEN entry_price + distance
        ELSE entry_price - distance

calculate_trailing_stop_distance(cfg, entry_price, sl_price, atr_value, instrument) ==
    IF cfg.ts_type = "ATR"
    THEN (IF IsSome(atr_value) THEN Unwrap(atr_value) ELSE 0) * cfg.value
    ELSE IF IsSome(sl_price)
         THEN Abs(entry_price - Unwrap(sl_price)) * cfg.value
         ELSE cfg.value * instrument.pip_size * 10

---------------------------------------------------------------------------
(* engine/position.rs: the open position on one candle *)

\* the stop moved to every new extreme less the distance, tighter or not
update_trailing_stop_Always(pos, c) ==
    IF ~IsSome(pos.trailing_stop_distance)
    THEN pos
    ELSE LET distance == Unwrap(pos.trailing_stop_distance) IN
         IF IsLongSide(pos.direction)
         THEN IF c.high > pos.highest_since_entry
              THEN [pos EXCEPT !.highest_since_entry = c.high,
                               !.stop_loss = Some(c.high - distance)]
              ELSE pos
         ELSE IF c.low < pos.lowest_since_entry
              THEN [pos EXCEPT !.lowest_since_entry = c.low,
                               !.stop_loss = Some(c.low + distance)]
              ELSE pos

update_trailing_stop(pos, c) ==
    IF ~IsSome(pos.trailing_stop_distance)
    THEN pos
    ELSE LET distance == Unwrap(pos.trailing_stop_distance) IN
         IF IsLongSide(pos.direction)
         THEN IF c.high > pos.highest_since_entry
              THEN LET new_sl == c.high - distance IN
                   [pos EXCEPT !.highest_since_entry = c.high,
                               !.stop_loss =
                                   IF IsSome(pos.stop_loss)
                                   THEN (IF new_sl > Unwrap(pos.stop_loss)
                                         THEN Some(new_sl) ELSE pos.stop_loss)
                                   ELSE Some(new_sl)]
              ELSE pos
         ELSE IF c.low < pos.lowest_since_entry
              THEN LET new_sl == c.low + distance IN
                   [pos EXCEPT !.lowest_since_entry = c.low,
                               !.stop_loss =
                                   IF IsSome(pos.stop_loss)
                                   THEN (IF new_sl < Unwrap(pos.stop_loss)
                                         THEN Some(new_sl) ELSE pos.stop_loss)
                                   ELSE Some(new_sl)]
              ELSE pos

update_mae_mfe(pos, c, instrument) ==
    LET adverse   == IF IsLongSide(pos.direction)
                     THEN (pos.entry_price - c.low) \div instrument.pip_size
                     ELSE (c.high - pos.entry_price) \div instrument.pip_size
        favorable == IF IsLongSide(pos.direction)
                     THEN (c.high - pos.entry_price) \div instrument.pip_size
                     ELSE (pos.entry_price - c.low) \div instrument.pip_size
    IN  [pos EXCEPT !.mae_pips = IF adverse > pos.mae_pips THEN adverse ELSE pos.mae_pips,
                    !.mfe_pips = IF favorable > pos.mfe_pips THEN favorable ELSE pos.mfe_pips]

\* Option<(fill, reason)>
check_stop_loss(pos, c) ==
    IF ~IsSome(pos.stop_loss)
    THEN None
    ELSE LET sl == Unwrap(pos.stop_loss) IN
         IF IsLongSide(pos.direction)
         THEN IF c.low <= sl
              THEN Some([price |-> IF c.open <= sl THEN c.open ELSE sl, reason |-> "StopLoss"])
              ELSE None
         ELSE IF c.high >= sl
              THEN Some([price |-> IF c.open >= sl THEN c.open ELSE sl, reason |-> "StopLoss"])
              ELSE None

check_take_profit(pos, c) ==
    IF ~IsSome(pos.take_profit)
    THEN None
    ELSE LET tp == Unwrap(pos.take_profit) IN
         IF IsLongSide(pos.direction)
         THEN IF c.high >= tp
              THEN Some([price |-> tp, reason |-> "TakeProfit"])
              ELSE None
         ELSE IF c.low <= tp
              THEN Some([price |-> tp, reason |-> "TakeProfit"])
              ELSE None

\* check_sl_tp_hit with the tie given to the take-profit
check_sl_tp_hit_TieTp(pos, c) ==
    LET sl_result == check_stop_loss(pos, c)
        tp_result == check_take_profit(pos, c)
    IN  CASE ~IsSome(sl_result) /\ ~IsSome(tp_result) -> None
          [] IsSome(sl_result) /\ ~IsSome(tp_result) -> sl_result
          [] ~IsSome(sl_result) /\ IsSome(tp_result) -> tp_result
          [] OTHER ->
                IF Abs(c.open - Unwrap(sl_result).price) < Abs(c.open - Unwrap(tp_result).price)
                THEN sl_result
                ELSE tp_result

check_sl_tp_hit(pos, c) ==
    LET sl_result == check_stop_loss(pos, c)
        tp_result == check_take_profit(pos, c)
    IN  CASE ~IsSome(sl_result) /\ ~IsSome(tp_result) -> None
          [] IsSome(sl_result) /\ ~IsSome(tp_result) -> sl_result
          [] ~IsSome(sl_result) /\ IsSome(tp_result) -> tp_result
          [] OTHER ->
                LET sl_fill == Unwrap(sl_result).price
                    tp_fill == Unwrap(tp_result).price
                    dist_sl == Abs(c.open - sl_fill)
                    dist_tp == Abs(c.open - tp_fill)
                IN  IF dist_sl <= dist_tp
                    THEN Some([price |-> sl_fill, reason |-> "StopLoss"])
                    ELSE Some([price |-> tp_fill, reason |-> "TakeProfit"])

---------------------------------------------------------------------------
(* engine/position.rs: the open position on one tick *)

\* a long position exits at the bid, a short one at the ask
check_tick_stop_loss(pos, bid, ask) ==
    IF ~IsSome(pos.stop_loss)
    THEN None
    ELSE LET sl == Unwrap(pos.stop_loss) IN
         IF IsLongSide(pos.direction)
         THEN IF bid <= sl THEN Some([price |-> bid, reason |-> "StopLoss"]) ELSE None
         ELSE IF ask >= sl THEN Some([price |-> ask, reason |-> "StopLoss"]) ELSE None

check_tick_take_profit(pos, bid, ask) ==
    IF ~IsSome(pos.take_profit)
    THEN None
    ELSE LET tp == Unwrap(pos.take_profit) IN
         IF IsLongSide(pos.direction)
         THEN IF bid >= tp THEN Some([price |-> tp, reason |-> "TakeProfit"]) ELSE None
         ELSE IF ask <= tp THEN Some([price |-> tp, reason |-> "TakeProfit"]) ELSE None

\* both hit on the same tick: the stop-loss
check_tick_sl_tp(pos, bid, ask) ==
    LET sl_result == check_tick_stop_loss(pos, bid, ask)
        tp_result == check_tick_take_profit(pos, bid, ask)
    IN  IF IsSome(sl_result) THEN sl_result ELSE tp_result

update_trailing_stop_tick(pos, bid, ask) ==
    IF ~IsSome(pos.trailing_stop_distance)
    THEN pos
    ELSE LET distance == Unwrap(pos.trailing_stop_distance) IN
         IF IsLongSide(pos.direction)
         THEN IF bid > pos.highest_since_entry
              THEN LET new_sl == bid - distance IN
                   [pos EXCEPT !.highest_since_entry = bid,
                               !.stop_loss =
                                   IF IsSome(pos.stop_loss)
                                   THEN (IF new_sl > Unwrap(pos.stop_loss)
                                         THEN Some(new_sl) ELSE pos.stop_loss)
                                   ELSE Some(new_sl)]
              ELSE pos
         ELSE IF ask < pos.lowest_since_entry
              THEN LET new_sl == ask + distance IN
                   [pos EXCEPT !.lowest_since_entry = ask,
                               !.stop_loss =
                                   IF IsSome(pos.stop_loss)
                                   THEN (IF new_sl < Unwrap(pos.stop_loss)
                                         THEN Some(new_sl) ELSE pos.stop_loss)
                                   ELSE Some(new_sl)]
              ELSE pos

update_mae_mfe_tick(pos, bid, ask, instrument) ==
    LET adverse   == IF IsLongSide(pos.direction)
                     THEN (pos.entry_price - bid) \div instrument.pip_size
                     ELSE (ask - pos.entry_price) \div instrument.pip_size
        favorable == IF IsLongSide(pos.direction)
                     THEN (bid - pos.entry_price) \div instrument.pip_size
                     ELSE (pos.entry_price - ask) \div instrument.pip_size
    IN  [pos EXCEPT !.mae_pips = IF adverse > pos.mae_pips THEN adverse ELSE pos.mae_pips,
                    !.mfe_pips = IF favorable > pos.mfe_pips THEN favorable ELSE pos.mfe_pips]

---------------------------------------------------------------------------
(* engine/strategy.rs: the warm-up *)

\* operand_lookback of the strategy's operands: the rules read at most one
\* indicator, an SMA (indicator_lookback = period), at an offset
operand_lookback(strat) ==
    (IF IsSome(strat.indicator) THEN Unwrap(strat.indicator) ELSE 0) + strat.offset

HasRules(strat) ==
    strat.has_long_entry \/ strat.has_short_entry \/ strat.has_long_exit \/ strat.has_short_exit

\* max_lookback without the extra bar for crossover detection
max_lookback_NoCross(strat) ==
    IF HasRules(strat) THEN operand_lookback(strat) ELSE 0

max_lookback(strat) ==
    (IF HasRules(strat) THEN operand_lookback(strat) ELSE 0) + 1

\* pre_compute_indicators fails when compute_indicator does: check_data_len(len, period)
pre_compute_indicators_ok(strat, len) ==
    ~(HasRules(strat) /\ IsSome(strat.indicator) /\ len < Unwrap(strat.indicator))

\* the loop started at the first candle, without warm-up
start_bar_of_Zero(strat, len) == 0

start_bar_of(strat, len) == Min2(max_lookback(strat), len)

---------------------------------------------------------------------------
(* engine/strategy.rs: the rules *)

\* f64::NAN: the one value of the model that is not a number
F64_NAN == -999

is_nan(x) == x = F64_NAN

\* an operand: values holds what its source (indicator output, price field,
\* time cache) has at every candle, constant_value what a Constant returns
Operand(type, values, offset, constant_value) ==
    [operand_type |-> type, values |-> values, offset |-> offset,
     constant_value |-> constant_value]

\* NaN before the first bar and behind the last candle, whatever the operand
resolve_operand(operand, bar_index, candles_len, time_offset) ==
    LET base_index == IF operand.operand_type = "BarTime"
                      THEN bar_index + time_offset
                      ELSE bar_index
    IN  IF IsSome(operand.offset) /\ base_index < Unwrap(operand.offset)
        THEN F64_NAN
        ELSE LET effective_index == IF IsSome(operand.offset)
                                    THEN base_index - Unwrap(operand.offset)
                                    ELSE base_index
             IN  IF effective_index >= candles_len
                 THEN F64_NAN
                 ELSE IF operand.operand_type = "Constant"
                      THEN operand.constant_value
                      ELSE operand.values[effective_index + 1]

\* a cross taken for the comparison at the bar alone
evaluate_single_rule_NoPrev(rule, bar_index, candles_len, time_offset) ==
    LET left  == resolve_operand(rule.left_operand, bar_index, candles_len, time_offset)
        right == resolve_operand(rule.right_operand, bar_index, candles_len, time_offset)
    IN  IF is_nan(left) \/ is_nan(right)
        THEN FALSE
        ELSE CASE rule.comparator \in {"GreaterThan", "CrossAbove"} -> left > right
               [] rule.comparator \in {"LessThan", "CrossBelow"} -> left < right
               [] rule.comparator = "GreaterOrEqual" -> left >= right
               [] rule.comparator = "LessOrEqual" -> left <= right
               [] OTHER -> left = right

\* Equal is |left - right| < f64::EPSILON: equality, on the whole numbers of the model
evaluate_single_rule(rule, bar_index, candles_len, time_offset) ==
    LET left  == resolve_operand(rule.left_operand, bar_index, candles_len, time_offset)
        right == resolve_operand(rule.right_operand, bar_index, candles_len, time_offset)
    IN  IF is_nan(left) \/ is_nan(right)
        THEN FALSE
        ELSE CASE rule.comparator = "GreaterThan" -> left > right
               [] rule.comparator = "LessThan" -> left < right
               [] rule.comparator = "GreaterOrEqual" -> left >= right
               [] rule.comparator = "LessOrEqual" -> left <= right
               [] rule.comparator = "Equal" -> left = right
               [] OTHER ->
                    IF bar_index = 0
                    THEN FALSE
                    ELSE LET prev_left  == resolve_operand(rule.left_operand, bar_index - 1,
                                                           candles_len, time_offset)
                             prev_right == resolve_operand(rule.right_operand, bar_index - 1,
                                                           candles_len, time_offset)
                         IN  IF is_nan(prev_left) \/ is_nan(prev_right)
                             THEN FALSE
                             ELSE IF rule.comparator = "CrossAbove"
                                  THEN prev_left <= prev_right /\ left > right
                                  ELSE prev_left >= prev_right /\ left < right

EvaluateSingleRule ==
    /\ pc = "evaluate_single_rule"
    /\ ret = None
    /\ ret' = Some(evaluate_single_rule(args.rule, args.bar_index, args.candles_len,
                                        args.time_offset))
    /\ UNCHANGED <<runVars, subVars, args, optVars>>

\* logical_operator.unwrap_or(LogicalOperator::And)
ChainOperator(rule) ==
    IF IsSome(rule.logical_operator) THEN Unwrap(rule.logical_operator) ELSE "And"

\* evaluate_rules with the rule's own connector in the place of the connector
\* of the rule before it
evaluate_rules_OwnOperator(rules, bar_index, candles_len, time_offset) ==
    LET result[k \in 1 .. Len(rules)] ==
            IF k = 1
            THEN evaluate_single_rule(rules[1], bar_index, candles_len, time_offset)
            ELSE LET current == evaluate_single_rule(rules[k], bar_index, candles_len,
                                                          time_offset) IN
                 IF ChainOperator(rules[k]) = "And"
                 THEN result[k - 1] /\ current
                 ELSE result[k - 1] \/ current
    IN  IF rules = <<>> THEN FALSE ELSE result[Len(rules)]

\* result[k]: the value of "result" after the loop's iteration i = k - 1
evaluate_rules(rules, bar_index, candles_len, time_offset) ==
    LET result[k \in 1 .. Len(rules)] ==
            IF k = 1
            THEN evaluate_single_rule(rules[1], bar_index, candles_len, time_offset)
            ELSE LET prev_operator == ChainOperator(rules[k - 1])
                     current       == evaluate_single_rule(rules[k], bar_index, candles_len,
                                                          time_offset)
                 IN  IF prev_operator = "And"
                     THEN result[k - 1] /\ current
                     ELSE result[k - 1] \/ current
    IN  IF rules = <<>> THEN FALSE ELSE result[Len(rules)]

EvaluateRules ==
    /\ pc = "evaluate_rules"
    /\ ret = None
    /\ ret' = Some(evaluate_rules(args.rules, args.bar_index, args.candles_len,
                                  args.time_offset))
    /\ UNCHANGED <<runVars, subVars, args, optVars>>

---------------------------------------------------------------------------
(* engine/executor.rs: the pieces of one bar *)

\* the sub-candle loop with the trailing stop moved in front of the SL/TP check
process_subbars_candle_TrailFirst(pos, sub_candles, start, end, instrument) ==
    LET after[k \in start .. end] ==
            IF k = start \/ IsSome(after[k - 1].exit)
            THEN IF k = start THEN [pos |-> pos, exit |-> None] ELSE after[k - 1]
            ELSE LET sc  == sub_candles[k]
                     p1  == update_trailing_stop(update_mae_mfe(after[k - 1].pos, sc, instrument),
                                                 sc)
                     hit == check_sl_tp_hit(p1, sc)
                 IN  [pos  |-> p1,
                      exit |-> IF IsSome(hit)
                               THEN Some([price |-> Unwrap(hit).price, time |-> sc.dt,
                                          reason |-> Unwrap(hit).reason])
                               ELSE None]
    IN  IF start >= end THEN [pos |-> pos, exit |-> None] ELSE after[end]

\* for i in start..end: after[k] is the state behind sub_candles[k - 1] of the
\* source, the k-th sub-candle.  [pos, exit: Option<(price, time, reason)>]
process_subbars_candle(pos, sub_candles, start, end, instrument) ==
    LET after[k \in start .. end] ==
            IF k = start \/ IsSome(after[k - 1].exit)
            THEN IF k = start THEN [pos |-> pos, exit |-> None] ELSE after[k - 1]
            ELSE LET sc  == sub_candles[k]
                     p1  == update_mae_mfe(after[k - 1].pos, sc, instrument)
                     hit == check_sl_tp_hit(p1, sc)
                 IN  IF IsSome(hit)
                     THEN [pos  |-> p1,
                           exit |-> Some([price |-> Unwrap(hit).price, time |-> sc.dt,
                                          reason |-> Unwrap(hit).reason])]
                     ELSE [pos |-> update_trailing_stop(p1, sc), exit |-> None]
    IN  IF start >= end THEN [pos |-> pos, exit |-> None] ELSE after[end]

\* the datetime string of a time in microseconds (not before the epoch): the
\* second and, behind the point, the six digits of the microseconds
micros_to_datetime_string(micros) ==
    [secs |-> micros \div 1000000, subsec_micros |-> micros % 1000000]

\* one turn of the loop over the bids (long) or the asks (short): px is the
\* price read.  [pos, exit]
TickTurn(pos, is_long, px, ts, instrument) ==
    LET adverse   == IF is_long
                     THEN (pos.entry_price - px) \div instrument.pip_size
                     ELSE (px - pos.entry_price) \div instrument.pip_size
        favorable == IF is_long
                     THEN (px - pos.entry_price) \div instrument.pip_size
                     ELSE (pos.entry_price - px) \div instrument.pip_size
        p1 == [pos EXCEPT !.mae_pips = IF adverse > pos.mae_pips THEN adverse ELSE pos.mae_pips,
                          !.mfe_pips = IF favorable > pos.mfe_pips THEN favorable
                                       ELSE pos.mfe_pips]
        sl_hit == /\ IsSome(p1.stop_loss)
                  /\ IF is_long THEN px <= Unwrap(p1.stop_loss) ELSE px >= Unwrap(p1.stop_loss)
        tp_hit == /\ IsSome(p1.take_profit)
                  /\ IF is_long THEN px >= Unwrap(p1.take_profit)
                     ELSE px <= Unwrap(p1.take_profit)
    IN  IF sl_hit
        THEN [pos |-> p1, exit |-> Some([price |-> px, time |-> micros_to_datetime_string(ts),
                                         reason |-> "StopLoss"])]
        ELSE IF tp_hit
        THEN [pos |-> p1, exit |-> Some([price |-> Unwrap(p1.take_profit),
                                         time |-> micros_to_datetime_string(ts),
                                         reason |-> "TakeProfit"])]
        ELSE IF ~IsSome(p1.trailing_stop_distance)
        THEN [pos |-> p1, exit |-> None]
        ELSE LET distance == Unwrap(p1.trailing_stop_distance)
                 new_sl   == IF is_long THEN px - distance ELSE px + distance
             IN  IF is_long /\ px > p1.highest_since_entry
                 THEN [pos |-> [p1 EXCEPT !.highest_since_entry = px,
                                          !.stop_loss =
                                              IF IsSome(p1.stop_loss)
                                              THEN (IF new_sl > Unwrap(p1.stop_loss)
                                                    THEN Some(new_sl) ELSE p1.stop_loss)
                                              ELSE Some(new_sl)],
                       exit |-> None]
                 ELSE IF ~is_long /\ px < p1.lowest_since_entry
                 THEN [pos |-> [p1 EXCEPT !.lowest_since_entry = px,
                                          !.stop_loss =
                                              IF IsSome(p1.stop_loss)
                                              THEN (IF new_sl < Unwrap(p1.stop_loss)
                                                    THEN Some(new_sl) ELSE p1.stop_loss)
                                              ELSE Some(new_sl)],
                       exit |-> None]
                 ELSE [pos |-> p1, exit |-> None]

\* the tick loop reading the asks for a long position and the bids for a short one
process_subbars_tick_columnar_Swapped(pos, ticks, start, end, instrument) ==
    LET is_long == IsLongSide(pos.direction)
        after[k \in start .. end] ==
            IF k = start \/ IsSome(after[k - 1].exit)
            THEN IF k = start THEN [pos |-> pos, exit |-> None] ELSE after[k - 1]
            ELSE TickTurn(after[k - 1].pos, is_long,
                          IF is_long THEN ticks.asks[k] ELSE ticks.bids[k],
                          ticks.timestamps[k], instrument)
    IN  IF start >= end THEN [pos |-> pos, exit |-> None] ELSE after[end]

\* the direction is tested once, in front of the loop; after[k] is the state
\* behind the k-th tick.  [pos, exit]
process_subbars_tick_columnar(pos, ticks, start, end, instrument) ==
    LET is_long == IsLongSide(pos.direction)
        after[k \in start .. end] ==
            IF k = start \/ IsSome(after[k - 1].exit)
            THEN IF k = start THEN [pos |-> pos, exit |-> None] ELSE after[k - 1]
            ELSE TickTurn(after[k - 1].pos, is_long,
                          IF is_long THEN ticks.bids[k] ELSE ticks.asks[k],
                          ticks.timestamps[k], instrument)
    IN  IF start >= end THEN [pos |-> pos, exit |-> None] ELSE after[end]

\* the number of sub-bars held
SubLen(sub_bars) ==
    CASE sub_bars.kind = "Candles" -> Len(sub_bars.candles)
      [] sub_bars.kind = "Ticks" -> Len(sub_bars.ticks.timestamps)
      [] OTHER -> 0

\* SubBarData::None
NoSubBars == [kind |-> "None"]

\* [pos, exit: Option<(price, time, reason)>]
resolve_exit(pos, c, sub_bars, sub_start, sub_end, instrument) ==
    CASE sub_bars.kind = "Candles" ->
            process_subbars_candle(pos, sub_bars.candles, sub_start, sub_end, instrument)
      [] sub_bars.kind = "Ticks" ->
            process_subbars_tick_columnar(pos, sub_bars.ticks, sub_start, sub_end, instrument)
      [] OTHER ->
            LET p1  == update_mae_mfe(pos, c, instrument)
                hit == check_sl_tp_hit(p1, c)
            IN  [pos  |-> p1,
                 exit |-> IF IsSome(hit)
                          THEN Some([price |-> Unwrap(hit).price, time |-> c.dt,
                                     reason |-> Unwrap(hit).reason])
                          ELSE None]

\* uuid::Uuid::new_v4(): a fresh random identifier
Uuids == {"uuid-a", "uuid-b"}

\* rnd is the exit slippage drawn, id the uuid drawn
close_position(pos, exit_price, exit_time, exit_bar, reason, instrument, strat, rnd, id) ==
    LET adjusted_exit == apply_exit_costs(exit_price, pos.direction, strat.trading_costs,
                                          instrument, rnd)
    IN  [id            |-> id,
         direction     |-> pos.direction,
         entry_time    |-> pos.entry_time,
         entry_price   |-> pos.entry_price,
         exit_time     |-> exit_time,
         exit_price    |-> adjusted_exit,
         lots          |-> pos.lots,
         pnl           |-> calculate_pnl(pos.direction, pos.entry_price, adjusted_exit,
                                         pos.lots, instrument),
         pnl_pips      |-> calculate_pnl_pips(pos.direction, pos.entry_price, adjusted_exit,
                                              instrument),
         commission    |-> calculate_commission(strat.trading_costs, pos.lots,
                                                pos.entry_price, instrument),
         close_reason  |-> reason,
         duration_bars |-> exit_bar - pos.entry_bar,
         mae           |-> pos.mae_pips,
         mfe           |-> pos.mfe_pips,
         entry_bar     |-> pos.entry_bar,
         exit_bar      |-> exit_bar]

\* evaluate_rules of the exit rules of the position's own direction, given
\* evaluate_rules of the two exit lists
OwnExitRules(direction, long_exit_true, short_exit_true) ==
    IF direction = "Short" THEN short_exit_true ELSE long_exit_true

\* "1. Update open position" with the exit rules tested before close_trades_at
UpdateOpenPosition_SignalFirst(pos, c, sub_bars, long_exit_true, short_exit_true, strat, instrument) ==
    LET r          == resolve_exit(pos, c, sub_bars, 0, SubLen(sub_bars), instrument)
        rules_true == OwnExitRules(pos.direction, long_exit_true, short_exit_true)
    IN
    IF IsSome(r.exit)
    THEN r
    ELSE IF rules_true
         THEN [pos |-> r.pos,
               exit |-> Some([price |-> c.close, time |-> c.dt, reason |-> "Signal"])]
         ELSE IF should_close_at_time(strat.close_trades_at, c.dt)
              THEN [pos |-> r.pos,
                    exit |-> Some([price |-> c.close, time |-> c.dt, reason |-> "TimeClose"])]
              ELSE [pos  |-> IF sub_bars.kind = "None"
                             THEN update_trailing_stop(r.pos, c)
                             ELSE r.pos,
                    exit |-> None]

\* "1. Update open position".
\* [pos: the position after the bar, exit: Option<(price, time, reason)>]
UpdateOpenPosition(pos, c, sub_bars, long_exit_true, short_exit_true, strat, instrument) ==
    LET r          == resolve_exit(pos, c, sub_bars, 0, SubLen(sub_bars), instrument)
        rules_true == OwnExitRules(pos.direction, long_exit_true, short_exit_true)
    IN
    IF IsSome(r.exit)
    THEN r
    ELSE IF should_close_at_time(strat.close_trades_at, c.dt)
         THEN [pos |-> r.pos,
               exit |-> Some([price |-> c.close, time |-> c.dt, reason |-> "TimeClose"])]
         ELSE IF rules_true
              THEN [pos |-> r.pos,
                    exit |-> Some([price |-> c.close, time |-> c.dt, reason |-> "Signal"])]
              ELSE [pos  |-> IF sub_bars.kind = "None"
                             THEN update_trailing_stop(r.pos, c)
                             ELSE r.pos,
                    exit |-> None]

\* the entry block entered whether or not a position is open
CanOpen_Always(pos) == TRUE

\* "2. Open new position if no position open": if position.is_none()
CanOpen(pos) == ~IsSome(pos)

\* the date tracking of the entry block: <<current_date, daily_trade_count>>
TrackDate(c, cur_date, count) ==
    IF Some(DateOf(c.dt)) # cur_date
    THEN <<Some(DateOf(c.dt)), 0>>
    ELSE <<cur_date, count>>

\* the entry block with the daily limit off by one
EntryDirection_AtLimit(strat, c, count, long_true, short_true) ==
    LET hm            == extract_hour_minute(c.dt)
        within_hours  == IF IsSome(strat.trading_hours)
                         THEN is_within_trading_hours(Unwrap(strat.trading_hours), hm[1], hm[2])
                         ELSE TRUE
        under_limit   == IF IsSome(strat.max_daily_trades)
                         THEN count <= Unwrap(strat.max_daily_trades)
                         ELSE TRUE
        can_go_long   == strat.trade_direction \in {"Long", "Both"}
        can_go_short  == strat.trade_direction \in {"Short", "Both"}
    IN  IF within_hours /\ under_limit
        THEN IF can_go_long /\ strat.has_long_entry /\ long_true
             THEN Some("Long")
             ELSE IF can_go_short /\ strat.has_short_entry /\ short_true
                  THEN Some("Short")
                  ELSE None
        ELSE None

\* the direction the entry block decides on; long_true and short_true are
\* evaluate_rules of the two entry lists.  Option<TradeDirection>
EntryDirection(strat, c, count, long_true, short_true) ==
    LET hm            == extract_hour_minute(c.dt)
        within_hours  == IF IsSome(strat.trading_hours)
                         THEN is_within_trading_hours(Unwrap(strat.trading_hours), hm[1], hm[2])
                         ELSE TRUE
        under_limit   == IF IsSome(strat.max_daily_trades)
                         THEN count < Unwrap(strat.max_daily_trades)
                         ELSE TRUE
        can_go_long   == strat.trade_direction \in {"Long", "Both"}
        can_go_short  == strat.trade_direction \in {"Short", "Both"}
    IN  IF within_hours /\ under_limit
        THEN IF can_go_long /\ strat.has_long_entry /\ long_true
             THEN Some("Long")
             ELSE IF can_go_short /\ strat.has_short_entry /\ short_true
                  THEN Some("Short")
                  ELSE None
        ELSE None

\* the OpenPosition built on entry; rnd is the entry slippage drawn
NewPosition(direction, c, bar, eq, strat, instrument, atr_val, rnd) ==
    LET entry_price == apply_entry_costs(c.close, direction, strat.trading_costs,
                                         instrument, rnd)
        sl_price    == IF IsSome(strat.stop_loss)
                       THEN Some(calculate_stop_loss(Unwrap(strat.stop_loss), entry_price,
                                                     direction, atr_val, instrument))
                       ELSE None
        lots        == calculate_lots(strat.position_sizing, eq, entry_price, sl_price,
                                      instrument)
        tp_price    == IF IsSome(strat.take_profit)
                       THEN Some(calculate_take_profit(Unwrap(strat.take_profit), entry_price,
                                                       sl_price, direction, atr_val,
                                                       instrument))
                       ELSE None
        ts_distance == IF IsSome(strat.trailing_stop)
                       THEN Some(calculate_trailing_stop_distance(
                                     Unwrap(strat.trailing_stop), entry_price, sl_price,
                                     atr_val, instrument))
                       ELSE None
    IN  [direction              |-> direction,
         entry_price            |-> entry_price,
         entry_bar              |-> bar,
         entry_time             |-> c.dt,
         lots                   |-> lots,
         stop_loss              |-> sl_price,
         take_profit            |-> tp_price,
         trailing_stop_distance |-> ts_distance,
         highest_since_entry    |-> c.high,
         lowest_since_entry     |-> c.low,
         mae_pips               |-> 0,
         mfe_pips               |-> 0]

\* "3. Record equity and drawdown": the equity with the open position marked to the close
CurrentEquity(pos, eq, c, instrument) ==
    IF IsSome(pos)
    THEN eq + calculate_pnl_pips(Unwrap(pos).direction, Unwrap(pos).entry_price, c.close,
                                 instrument) * instrument.pip_value * Unwrap(pos).lots
    ELSE eq

\* drawdown_pct as the fraction num / den (den > 0)
DrawdownPct(peak, current) ==
    IF peak > 0
    THEN [num |-> (peak - current) * 100, den |-> peak]
    ELSE [num |-> 0, den |-> 1]

\* compute_atr_if_needed: Some(values) when a component is ATR-based
UsesAtr(strat) ==
    \/ IsSome(strat.stop_loss) /\ Unwrap(strat.stop_loss).sl_type = "ATR"
    \/ IsSome(strat.take_profit) /\ Unwrap(strat.take_profit).tp_type = "ATR"
    \/ IsSome(strat.trailing_stop) /\ Unwrap(strat.trailing_stop).ts_type = "ATR"

\* atr_values[i]: None when not computed or NaN at the bar
AtrValues(strat) == IF UsesAtr(strat) THEN {None, Some(1)} ELSE {None}

\* the well-formed candles over a set of prices: low <= open, close <= high
Ohlc(prices) ==
    {q \in [open : prices, high : prices, low : prices, close : prices] :
        q.low <= q.open /\ q.open <= q.high /\ q.low <= q.close /\ q.close <= q.high}

\* candles[i]: later than the candle before it
NextCandles ==
    {[dt |-> candle.dt + s, open |-> q.open, high |-> q.high, low |-> q.low,
      close |-> q.close] : s \in data.steps, q \in Ohlc(data.prices)}

\* the flag polled on the first candle only
PollsAt_First(bar) == bar = 0

\* "Check cancellation": the bars at which the loop polls the flag
PollsAt(bar) == bar % PollInterval = 0

\* the first bar index at or after bar b that is a multiple of the poll interval
NextPoll(b) == ((b + PollInterval - 1) \div PollInterval) * PollInterval

---------------------------------------------------------------------------
(* engine/executor.rs: sub-bar resolution *)

\* a datetime string of fixed width: the decimal digits of the time
FormatDt(ts) == <<ts \div 10, ts % 10>>

\* a < b on &str: lexicographic, a proper prefix is less
StrLess(a, b) ==
    \E k \in 1 .. Len(b) :
        /\ k <= Len(a) + 1
        /\ \A j \in 1 .. (k - 1) : a[j] = b[j]
        /\ k = Len(a) + 1 \/ a[k] < b[k]

\* i64::MAX, the next_ts of the last TF bar: above every timestamp
I64_MAX == MaxTs + 1

\* "while c < total && subs[c].datetime.as_str() < dt { c += 1 }"
RECURSIVE AdvanceDt(_, _, _)
AdvanceDt(subs, c, dt) ==
    IF c < Len(subs) /\ StrLess(subs[c + 1], dt)
    THEN AdvanceDt(subs, c + 1, dt)
    ELSE c

\* "while c < total && ts[c] < bound { c += 1 }"
RECURSIVE AdvanceTs(_, _, _)
AdvanceTs(ts, c, bound) ==
    IF c < Len(ts) /\ ts[c + 1] < bound
    THEN AdvanceTs(ts, c + 1, bound)
    ELSE c

\* find_subbar_range with a tick at the next bar's timestamp taken into this bar
find_subbar_range_Inclusive(sub_bars, cursor, candle_dt, next_dt, candle_ts, next_ts) ==
    CASE sub_bars.kind = "Candles" ->
            LET subs  == sub_bars.datetime
                start == AdvanceDt(subs, cursor, candle_dt)
                end   == IF next_dt # <<>>
                         THEN AdvanceDt(subs, start, next_dt)
                         ELSE Len(subs)
            IN  [cursor |-> end, start |-> start, end |-> end]
      [] sub_bars.kind = "Ticks" ->
            LET ts    == sub_bars.timestamps
                start == AdvanceTs(ts, cursor, candle_ts)
                end   == IF next_ts < I64_MAX
                         THEN AdvanceTs(ts, start, next_ts + 1)
                         ELSE Len(ts)
            IN  [cursor |-> end, start |-> start, end |-> end]
      [] OTHER -> [cursor |-> cursor, start |-> 0, end |-> 0]

\* [cursor: the cursor after the call, start, end]
find_subbar_range(sub_bars, cursor, candle_dt, next_dt, candle_ts, next_ts) ==
    CASE sub_bars.kind = "Candles" ->
            LET subs  == sub_bars.datetime
                start == AdvanceDt(subs, cursor, candle_dt)
                end   == IF next_dt # <<>>
                         THEN AdvanceDt(subs, start, next_dt)
                         ELSE Len(subs)
            IN  [cursor |-> end, start |-> start, end |-> end]
      [] sub_bars.kind = "Ticks" ->
            LET ts    == sub_bars.timestamps
                start == AdvanceTs(ts, cursor, candle_ts)
                end   == IF next_ts < I64_MAX
                         THEN AdvanceTs(ts, start, next_ts)
                         ELSE Len(ts)
            IN  [cursor |-> end, start |-> start, end |-> end]
      [] OTHER -> [cursor |-> cursor, start |-> 0, end |-> 0]

\* the sub-bar data: candles carry datetime strings, ticks carry timestamps
SubBars ==
    [kind       |-> sub_mode,
     datetime   |-> [k \in DOMAIN sub_ts |-> FormatDt(sub_ts[k])],
     timestamps |-> sub_ts]

\* the part of one loop iteration that finds the bar's sub-bar range
SubStep ==
    /\ pc = "subbars"
    /\ i < total_bars
    /\ LET candle_dt == FormatDt(tf_ts[i + 1])
           next_dt   == IF i + 1 < total_bars THEN FormatDt(tf_ts[i + 2]) ELSE <<>>
           candle_ts == tf_ts[i + 1]
           next_ts   == IF i + 1 < total_bars THEN tf_ts[i + 2] ELSE I64_MAX
           r         == find_subbar_range(SubBars, sub_cursor, candle_dt, next_dt,
                                          candle_ts, next_ts)
       IN  /\ sub_cursor' = r.cursor
           /\ ranges' = Append(ranges, [bar |-> i, start |-> r.start, end |-> r.end,
                                        cursor |-> r.cursor])
    /\ i' = i + 1
    /\ UNCHANGED <<pc, strategy, config, data, total_bars, cancel_flag, candle, position,
                   equity, peak_equity, trades, equity_curve, drawdown_curve,
                   daily_trade_count, current_date, opened, obs, poll_at_set>>
    /\ UNCHANGED <<tf_ts, sub_ts, sub_mode, fnVars, optVars>>

---------------------------------------------------------------------------
(* engine/position.rs: check_sl_tp_hit on its own *)

CheckSlTp ==
    /\ pc = "check_sl_tp_hit"
    /\ ret = None
    /\ ret' = Some(check_sl_tp_hit(args.pos, args.candle))
    /\ UNCHANGED <<runVars, subVars, args, optVars>>

\* one call of process_subbars_candle
ProcessSubbarsCandle ==
    /\ pc = "process_subbars_candle"
    /\ ret = None
    /\ ret' = Some(process_subbars_candle(args.pos, args.sub_candles, args.start, args.end,
                                          Instrument))
    /\ UNCHANGED <<runVars, subVars, args, optVars>>

\* one call of process_subbars_tick_columnar
ProcessSubbarsTick ==
    /\ pc = "process_subbars_tick_columnar"
    /\ ret = None
    /\ ret' = Some(process_subbars_tick_columnar(args.pos, args.ticks, args.start, args.end,
                                                 Instrument))
    /\ UNCHANGED <<runVars, subVars, args, optVars>>

---------------------------------------------------------------------------
(* models/strategy.rs: IndicatorConfig::cache_key; engine/strategy.rs: the
   indicator cache.  An f64 parameter is a whole number of 1/100000. *)

Pow10(n) == IF n = 0 THEN 1 ELSE IF n = 1 THEN 10 ELSE IF n = 2 THEN 100
            ELSE IF n = 3 THEN 1000 ELSE IF n = 4 THEN 10000 ELSE 100000

\* format!("{:.d}", x): x rounded to d decimals, the whole part and the d
\* digits behind the point (x >= 0, not half-way between two results)
FormatFixed(x, d) ==
    LET scale   == Pow10(5 - d)
        rounded == (x + scale \div 2) \div scale
    IN  [whole |-> rounded \div Pow10(d), decimals |-> rounded % Pow10(d), digits |-> d]

\* the key string as the sequence of its pieces: the type, then one piece
\* "<tag><value>" per parameter that is Some
cache_key(cfg) ==
    LET p == cfg.params
        int(tag, opt)      == IF IsSome(opt) THEN <<<<tag, Unwrap(opt)>>>> ELSE <<>>
        float(tag, opt, d) == IF IsSome(opt) THEN <<<<tag, FormatFixed(Unwrap(opt), d)>>>>
                              ELSE <<>>
    IN  <<cfg.indicator_type>>
        \o int("_p", p.period) \o int("_fp", p.fast_period) \o int("_sp", p.slow_period)
        \o int("_sig", p.signal_period) \o float("_sd", p.std_dev, 2)
        \o int("_kp", p.k_period) \o int("_dp", p.d_period)
        \o float("_af", p.acceleration_factor, 4) \o float("_mf", p.maximum_factor, 4)
        \o float("_g", p.gamma, 4) \o float("_mul", p.multiplier, 2)

\* seen and cache behind one more operand; compute_indicator's output is
\* stood for by the configuration it was computed from
collect_indicator_from_operand(operand, state) ==
    IF operand.operand_type = "Indicator" /\ IsSome(operand.indicator)
    THEN LET cfg == Unwrap(operand.indicator)
             key == cache_key(cfg)
         IN  IF key \in state.seen
             THEN state
             ELSE [seen  |-> state.seen \cup {key},
                   cache |-> state.cache \cup {[key |-> key, output |-> cfg]}]
    ELSE state

\* pre_compute_indicators on one rule: the left operand, then the right one
PreComputeIndicators ==
    /\ pc = "pre_compute_indicators"
    /\ ret = None
    /\ ret' = Some(collect_indicator_from_operand(
                       args.right_operand,
                       collect_indicator_from_operand(args.left_operand,
                                                      [seen |-> {}, cache |-> {}])))
    /\ UNCHANGED <<runVars, subVars, args, optVars>>

---------------------------------------------------------------------------
(* engine/optimizer.rs: apply_params, the params map of build_result;
   commands.rs: the values read back from the map.  Values are whole
   numbers, so val.round() is the value. *)

\* "as u8" of a whole number: saturating
AsU8(v) == IF v < 0 THEN 0 ELSE IF v > 255 THEN 255 ELSE v

\* set_indicator_param: [indicator, updated]
set_indicator_param(indicator, param_name, value) ==
    IF ~IsSome(indicator)
    THEN [indicator |-> indicator, updated |-> FALSE]
    ELSE IF param_name \in {"period", "fast_period", "slow_period", "signal_period",
                            "std_dev", "k_period", "d_period", "acceleration_factor",
                            "maximum_factor", "gamma", "multiplier"}
    THEN [indicator |-> Some([Unwrap(indicator) EXCEPT !.params[param_name] = Some(value)]),
          updated   |-> TRUE]
    ELSE [indicator |-> indicator, updated |-> FALSE]

\* the rule with the parameter set on the operand of the range's side
PatchRule(rule, range, val) ==
    LET left  == set_indicator_param(rule.left_operand.indicator, range.param_name, val)
        right == set_indicator_param(rule.right_operand.indicator, range.param_name, val)
    IN  IF range.operand_side = "left"
        THEN [rule EXCEPT !.left_operand.indicator = left.indicator]
        ELSE IF range.operand_side = "right"
        THEN [rule EXCEPT !.right_operand.indicator = right.indicator]
        ELSE IF left.updated
        THEN [rule EXCEPT !.left_operand.indicator = left.indicator]
        ELSE [rule EXCEPT !.right_operand.indicator = right.indicator]

\* one turn of the loop of apply_params; rule lists are indexed from 1
ApplyParam(s, range, val) ==
    LET risk(field) ==
            IF ~IsSome(s[field])
            THEN s
            ELSE IF range.param_name = "value"
            THEN [s EXCEPT ![field] = Some([Unwrap(s[field]) EXCEPT !.value = val])]
            ELSE IF range.param_name = "atr_period"
            THEN [s EXCEPT ![field] = Some([Unwrap(s[field]) EXCEPT !.atr_period = Some(val)])]
            ELSE s
        v     == AsU8(val)
        th    == IF IsSome(s.trading_hours) THEN Unwrap(s.trading_hours)
                 ELSE [start_hour |-> 0, start_minute |-> 0, end_hour |-> 23,
                       end_minute |-> 59]
        ct    == IF IsSome(s.close_trades_at) THEN Unwrap(s.close_trades_at)
                 ELSE [hour |-> 16, minute |-> 0]
        idx   == range.rule_index
        group == IF range.param_source \in {"long_entry", "short_entry", "long_exit",
                                            "short_exit"}
                 THEN [list |-> range.param_source \o "_rules", at |-> idx]
                 ELSE IF idx < Len(s.long_entry_rules)
                 THEN [list |-> "long_entry_rules", at |-> idx]
                 ELSE [list |-> "long_exit_rules", at |-> idx - Len(s.long_entry_rules)]
    IN  CASE range.param_source = "stop_loss" -> risk("stop_loss")
          [] range.param_source = "take_profit" -> risk("take_profit")
          [] range.param_source = "trailing_stop" -> risk("trailing_stop")
          [] range.param_source = "trading_hours" ->
                [s EXCEPT !.trading_hours = Some(
                    CASE range.param_name = "start_hour" ->
                            [th EXCEPT !.start_hour = Min2(v, 23)]
                      [] range.param_name = "start_minute" ->
                            [th EXCEPT !.start_minute = Min2(v, 59)]
                      [] range.param_name = "end_hour" -> [th EXCEPT !.end_hour = Min2(v, 23)]
                      [] range.param_name = "end_minute" ->
                            [th EXCEPT !.end_minute = Min2(v, 59)]
                      [] OTHER -> th)]
          [] range.param_source = "close_trades_at" ->
                [s EXCEPT !.close_trades_at = Some(
                    CASE range.param_name = "hour" -> [ct EXCEPT !.hour = Min2(v, 23)]
                      [] range.param_name = "minute" -> [ct EXCEPT !.minute = Min2(v, 59)]
                      [] OTHER -> ct)]
          [] OTHER ->
                IF group.at >= 0 /\ group.at < Len(s[group.list])
                THEN [s EXCEPT ![group.list][group.at + 1] =
                                   PatchRule(s[group.list][group.at + 1], range, val)]
                ELSE s

\* for (range, &val) in ranges.iter().zip(values.iter())
apply_params(strat, rs, values) ==
    LET n == Min2(Len(rs), Len(values))
        patched[k \in 0 .. n] ==
            IF k = 0 THEN strat ELSE ApplyParam(patched[k - 1], rs[k], values[k])
    IN  patched[n]

\* the HashMap of build_result: display_name -> the value inserted last
ParamsMap(rs, values) ==
    LET n == Min2(Len(rs), Len(values))
    IN  [name \in {rs[k].display_name : k \in 1 .. n} |->
            values[CHOOSE k \in 1 .. n :
                      /\ rs[k].display_name = name
                      /\ \A j \in (k + 1) .. n : rs[j].display_name # name]]

\* commands.rs: the values looked up by display_name, 0.0 for a name not held
ParamValues(rs, params) ==
    [k \in 1 .. Len(rs) |->
        IF rs[k].display_name \in DOMAIN params THEN params[rs[k].display_name] ELSE 0]

\* the strategy patched for the evaluation, the params stored in the result,
\* and the strategy patched again for the out-of-sample runs
RebuildStrategy ==
    /\ pc = "apply_params"
    /\ ret = None
    /\ \E params \in {ParamsMap(args.ranges, args.values)} :
       \E param_values \in {ParamValues(args.ranges, params)} :
          ret' = Some([evaluated    |-> apply_params(args.strategy, args.ranges, args.values),
                       params       |-> params,
                       param_values |-> param_values,
                       modified     |-> apply_params(args.strategy, args.ranges,
                                                     param_values)])
    /\ UNCHANGED <<runVars, subVars, args, optVars>>

---------------------------------------------------------------------------
(* Two runs on the same input: the one trade that both open and close *)

\* the trade of one run: opened on the entry candle, closed on the exit candle
OneTrade(a, rnde, rndx, id) ==
    close_position(NewPosition(a.direction, a.entry, 1, a.equity, a.strategy, Instrument,
                               None, rnde),
                   a.exit.close, a.exit.dt, 2, "Signal", Instrument, a.strategy, rndx, id)

\* the same entry and exit, processed by a first and by a second run
TradeTwice ==
    /\ pc = "twice"
    /\ ret = None
    /\ \E e1, e2 \in RandomSlippage(args.strategy.trading_costs, Instrument) :
       \E x1, x2 \in RandomSlippage(args.strategy.trading_costs, Instrument) :
       \E id1, id2 \in Uuids :
          ret' = Some(<<OneTrade(args, e1, x1, id1), OneTrade(args, e2, x2, id2)>>)
    /\ UNCHANGED <<runVars, subVars, args, optVars>>

\* the sub-bars that find_subbar_range hands to the bar of candle c: up to
\* MaxSlice sub-candles or ticks that follow the bar's opening time, their
\* prices (the bids of the ticks) inside the candle's range
SubSlices(mode, c) ==
    CASE mode = "Candles" ->
            {[kind    |-> "Candles",
              candles |-> [k \in 1 .. Len(q) |->
                              [dt |-> c.dt + k, open |-> q[k].open, high |-> q[k].high,
                               low |-> q[k].low, close |-> q[k].close]]] :
                q \in UNION {[1 .. n -> Ohlc(c.low .. c.high)] : n \in 0 .. MaxSlice}}
      [] mode = "Ticks" ->
            {[kind  |-> "Ticks",
              ticks |-> [bids       |-> [k \in 1 .. Len(q) |-> q[k][1]],
                         asks       |-> [k \in 1 .. Len(q) |-> q[k][2]],
                         timestamps |-> [k \in 1 .. Len(q) |-> c.dt + k]]] :
                q \in UNION {[1 .. n -> {t \in (c.low .. c.high) \X data.prices :
                                             t[1] <= t[2]}] : n \in 0 .. MaxSlice}}
      [] OTHER -> {NoSubBars}

\* the position along one bar's update: as found (behind the TF candle's
\* MAE/MFE when there are no sub-bars), behind each sub-bar of the slice, and as
\* left for the next bar
PositionTrail(pos, c, sub_bars, upd, instrument) ==
    [k \in 1 .. (SubLen(sub_bars) + 1) |->
        resolve_exit(pos, c, sub_bars, 0, k - 1, instrument).pos]
    \o (IF IsSome(upd.exit) THEN <<>> ELSE <<upd.pos>>)

---------------------------------------------------------------------------
(* engine/metrics.rs: the capital and the drawdown of calculate_metrics *)

\* max_dd_pct, the first component of the result, as a fraction; the walk
\* starts with the peak at the first point of the curve
calculate_drawdown_stats(curve) ==
    LET walk[k \in 0 .. Len(curve)] ==
            IF k = 0
            THEN [peak |-> curve[1].equity, max_dd_pct |-> Frac(0, 1)]
            ELSE LET point  == curve[k]
                     peak   == IF point.equity > walk[k - 1].peak
                               THEN point.equity ELSE walk[k - 1].peak
                     dd_pct == IF peak > 0
                               THEN Frac((peak - point.equity) * 100, peak)
                               ELSE Frac(0, 1)
                 IN  [peak       |-> peak,
                      max_dd_pct |-> IF FracLess(walk[k - 1].max_dd_pct, dd_pct)
                                     THEN dd_pct ELSE walk[k - 1].max_dd_pct]
    IN  IF curve = <<>> THEN Frac(0, 1) ELSE walk[Len(curve)].max_dd_pct

\* total_trades, net_profit, final_capital and max_drawdown_pct of the metrics
calculate_metrics(trade_list, curve, initial_capital) ==
    IF Len(trade_list) = 0
    THEN [total_trades |-> 0, net_profit |-> 0, final_capital |-> initial_capital,
          max_drawdown_pct |-> Frac(0, 1)]
    ELSE LET total_commission == SeqSum([k \in 1 .. Len(trade_list) |->
                                            trade_list[k].commission])
             net_profit       == SeqSum([k \in 1 .. Len(trade_list) |-> trade_list[k].pnl])
                                 - total_commission
         IN  [total_trades     |-> Len(trade_list),
              net_profit       |-> net_profit,
              final_capital    |-> initial_capital + net_profit,
              max_drawdown_pct |-> calculate_drawdown_stats(curve)]

---------------------------------------------------------------------------
(* engine/executor.rs: run_backtest *)

\* the function's entry, up to the loop
Start ==
    /\ pc = "start"
    /\ pc' = IF total_bars = 0 THEN "err_nodata"
             ELSE IF ~pre_compute_indicators_ok(strategy, total_bars) THEN "err_indicator"
             ELSE "loop"
    /\ i' = start_bar_of(strategy, total_bars)
    /\ equity' = config.initial_capital
    /\ peak_equity' = config.initial_capital
    /\ UNCHANGED <<strategy, config, data, total_bars, cancel_flag, candle, position,
                   trades, equity_curve, drawdown_curve, daily_trade_count, current_date,
                   opened, obs, poll_at_set>>
    /\ UNCHANGED <<subVars, fnVars, optVars>>

\* one iteration of "for i in start_bar..total_bars"
BarStep ==
    /\ pc = "loop"
    /\ i < total_bars
    /\ IF PollsAt(i) /\ cancel_flag
       THEN /\ pc' = "cancelled"
            /\ UNCHANGED <<i, candle, position, equity, peak_equity, trades, equity_curve,
                           drawdown_curve, daily_trade_count, current_date, opened, obs>>
       ELSE \E c \in NextCandles :
            \E long_exit_true \in (IF IsSome(position) /\ strategy.has_long_exit
                                   THEN BOOLEAN ELSE {FALSE}) :
            \E short_exit_true \in (IF IsSome(position) /\ strategy.has_short_exit
                                    THEN BOOLEAN ELSE {FALSE}) :
            \E rndx \in (IF IsSome(position)
                         THEN RandomSlippage(strategy.trading_costs, Instrument)
                         ELSE {0}) :
            \E id \in (IF IsSome(position) THEN Uuids ELSE {"uuid-a"}) :
            \E sub_bars \in (IF IsSome(position) THEN SubSlices(sub_mode, c)
                             ELSE {NoSubBars}) :
            \E upd \in {IF IsSome(position)
                        THEN UpdateOpenPosition(Unwrap(position), c, sub_bars, long_exit_true,
                                                short_exit_true, strategy, Instrument)
                        ELSE [pos |-> None, exit |-> None]} :
            \E trade \in {IF IsSome(upd.exit)
                          THEN Some(close_position(upd.pos, Unwrap(upd.exit).price,
                                                   Unwrap(upd.exit).time, i,
                                                   Unwrap(upd.exit).reason, Instrument,
                                                   strategy, rndx, id))
                          ELSE None} :
            \E eq1 \in {IF IsSome(trade)
                        THEN equity + Unwrap(trade).pnl - Unwrap(trade).commission
                        ELSE equity} :
            \E pos1 \in {IF IsSome(trade) \/ ~IsSome(position) THEN None ELSE Some(upd.pos)} :
            \E free \in {CanOpen(pos1)} :
            \E track \in {IF free THEN TrackDate(c, current_date, daily_trade_count)
                          ELSE <<current_date, daily_trade_count>>} :
            \E long_true \in (IF free /\ strategy.has_long_entry THEN BOOLEAN ELSE {FALSE}) :
            \E short_true \in (IF free /\ strategy.has_short_entry THEN BOOLEAN ELSE {FALSE}) :
            \E direction \in {IF free
                              THEN EntryDirection(strategy, c, track[2], long_true, short_true)
                              ELSE None} :
            \E atr_val \in (IF IsSome(direction) THEN AtrValues(strategy) ELSE {None}) :
            \E rnde \in (IF IsSome(direction)
                         THEN RandomSlippage(strategy.trading_costs, Instrument)
                         ELSE {0}) :
            \E pos2 \in {IF IsSome(direction)
                         THEN Some(NewPosition(Unwrap(direction), c, i, eq1, strategy,
                                               Instrument, atr_val, rnde))
                         ELSE pos1} :
            \E current \in {CurrentEquity(pos2, eq1, c, Instrument)} :
            \E peak1 \in {IF current > peak_equity THEN current ELSE peak_equity} :
                /\ pc' = "loop"
                /\ i' = i + 1
                /\ candle' = c
                /\ position' = pos2
                /\ equity' = eq1
                /\ peak_equity' = peak1
                /\ trades' = IF IsSome(trade) THEN Append(trades, Unwrap(trade)) ELSE trades
                /\ equity_curve' = Append(equity_curve,
                                          [timestamp |-> c.dt, equity |-> current])
                /\ drawdown_curve' = Append(drawdown_curve,
                                            [timestamp |-> c.dt,
                                             drawdown_pct |-> DrawdownPct(peak1, current)])
                /\ current_date' = track[1]
                /\ daily_trade_count' = IF IsSome(direction) THEN track[2] + 1 ELSE track[2]
                /\ opened' = IF IsSome(direction)
                             THEN Append(opened, [bar |-> i, date |-> DateOf(c.dt)])
                             ELSE opened
                /\ obs' = [bar          |-> i,
                           had_position |-> IsSome(position),
                           resolver     |-> IF IsSome(position)
                                            THEN resolve_exit(Unwrap(position), c, sub_bars,
                                                              0, SubLen(sub_bars),
                                                              Instrument).exit
                                            ELSE None,
                           time_due     |-> should_close_at_time(strategy.close_trades_at,
                                                                 c.dt),
                           rules_true   |-> IF IsSome(position)
                                            THEN OwnExitRules(Unwrap(position).direction,
                                                              long_exit_true, short_exit_true)
                                            ELSE FALSE,
                           n_trades     |-> Len(trades),
                           n_opened     |-> Len(opened),
                           rndx         |-> rndx,
                           trail        |-> IF IsSome(position)
                                            THEN PositionTrail(Unwrap(position), c, sub_bars,
                                                               upd, Instrument)
                                            ELSE <<>>]
    /\ UNCHANGED <<strategy, config, data, total_bars, cancel_flag, poll_at_set>>
    /\ UNCHANGED <<subVars, fnVars, optVars>>

\* "5. Calculate metrics": what run_backtest returns with Ok
BacktestResults ==
    [trades         |-> trades,
     equity_curve   |-> equity_curve,
     drawdown_curve |-> drawdown_curve,
     metrics        |-> calculate_metrics(trades, equity_curve, config.initial_capital)]

\* the return of Ok without the close at end of data
Finish_NoClose ==
    /\ pc = "loop"
    /\ i >= total_bars
    /\ pc' = "ok"
    /\ UNCHANGED <<strategy, config, data, total_bars, i, cancel_flag, candle, position,
                   equity, peak_equity, trades, equity_curve, drawdown_curve,
                   daily_trade_count, current_date, opened, obs, poll_at_set>>
    /\ UNCHANGED <<subVars, fnVars, optVars>>

\* "4. Close any remaining position at end of data", and the return of Ok
Finish ==
    /\ pc = "loop"
    /\ i >= total_bars
    /\ \E rndx \in (IF IsSome(position)
                    THEN RandomSlippage(strategy.trading_costs, Instrument)
                    ELSE {0}) :
       \E id \in (IF IsSome(position) THEN Uuids ELSE {"uuid-a"}) :
         trades' = IF IsSome(position)
                   THEN Append(trades,
                               close_position(Unwrap(position), candle.close, candle.dt,
                                              total_bars - 1, "EndOfData", Instrument,
                                              strategy, rndx, id))
                   ELSE trades
    /\ pc' = "ok"
    /\ UNCHANGED <<strategy, config, data, total_bars, i, cancel_flag, candle, position,
                   equity, peak_equity, equity_curve, drawdown_curve, daily_trade_count,
                   current_date, opened, obs, poll_at_set>>
    /\ UNCHANGED <<subVars, fnVars, optVars>>

\* cancel_backtest, from another thread while the run is in flight
CancelSet ==
    /\ pc \in {"start", "loop"}
    /\ ~cancel_flag
    /\ cancel_flag' = TRUE
    /\ poll_at_set' = NextPoll(IF pc = "start" THEN start_bar_of(strategy, total_bars) ELSE i)
    /\ UNCHANGED <<pc, strategy, config, data, total_bars, i, candle, position, equity,
                   peak_equity, trades, equity_curve, drawdown_curve, daily_trade_count,
                   current_date, opened, obs>>
    /\ UNCHANGED <<subVars, fnVars, optVars>>

\* a run and the cancel request of another thread
NextRun == Start \/ BarStep \/ Finish \/ CancelSet

\* a run that nothing cancels
NextLoop == Start \/ BarStep \/ Finish

---------------------------------------------------------------------------
(* engine/optimizer.rs: the grid *)

MAX_COMBINATIONS == 500000

USIZE_MAX == (2 ^ UsizeBits) - 1

\* usize::saturating_mul
saturating_mul(a, b) ==
    IF b > 0 /\ a > USIZE_MAX \div b THEN USIZE_MAX ELSE a * b

\* vals.len() of one range: v = min; while v <= max { push v; v += step },
\* and min alone when the loop pushed nothing
RangeCount(r) ==
    IF r.min > r.max THEN 1 ELSE ((r.max - r.min) \div r.step) + 1

\* vals of one range
RangeValues(r) == [k \in 1 .. RangeCount(r) |-> r.min + (k - 1) * r.step]

\* the limit test with >= in the place of >
ExceedsLimit_AtLimit(total) == total >= MAX_COMBINATIONS

ExceedsLimit(total) == total > MAX_COMBINATIONS

\* the cartesian product, one range after the other, the last one varying
\* fastest; size[j] is combos.len() after range j; the result is held as a
\* sequence value
CartesianProduct(rs) ==
    LET size[j \in 0 .. Len(rs)] ==
            IF j = 0 THEN 1 ELSE size[j - 1] * RangeCount(rs[j])
        combos[j \in 0 .. Len(rs)] ==
            IF j = 0
            THEN << <<>> >>
            ELSE [k \in 1 .. size[j] |->
                     Append(combos[j - 1][((k - 1) \div RangeCount(rs[j])) + 1],
                            RangeValues(rs[j])[((k - 1) % RangeCount(rs[j])) + 1])]
    IN  combos[Len(rs)] \o <<>>

generate_grid(rs) ==
    IF rs = <<>> \/ \E j \in 1 .. Len(rs) : rs[j].step <= 0
    THEN [tag |-> "OptimizationError"]
    ELSE LET total[j \in 0 .. Len(rs)] ==
                 IF j = 0 THEN 1 ELSE saturating_mul(total[j - 1], RangeCount(rs[j]))
         IN  IF ExceedsLimit(total[Len(rs)])
             THEN [tag |-> "TooManyCombinations", count |-> total[Len(rs)],
                   limit |-> MAX_COMBINATIONS]
             ELSE [tag |-> "Ok", combos |-> CartesianProduct(rs)]

---------------------------------------------------------------------------
(* engine/optimizer.rs: results and scores *)

\* f64::NEG_INFINITY: below every value of the model
NEG_INFINITY == -1000000

ObjectiveFunction ==
    {"TotalProfit", "SharpeRatio", "ProfitFactor", "WinRate", "ReturnDdRatio",
     "MinStagnation", "MinUlcerIndex"}

\* the metrics of a backtest on a capital of 100: total_return_pct =
\* net_profit / 100 * 100
Metrics(a, b, c) ==
    [net_profit       |-> a,
     total_return_pct |-> a,
     sharpe_ratio     |-> b,
     profit_factor    |-> b,
     win_rate_pct     |-> c,
     return_dd_ratio  |-> a,
     stagnation_bars  |-> c,
     ulcer_index_pct  |-> b,
     max_drawdown_pct |-> c,
     total_trades     |-> 1]

MetricsSet == {Metrics(a, b, c) : a \in 0 .. MaxMetric, b \in 0 .. MaxMetric, c \in 0 .. MaxMetric}

extract_objective(metrics, objective) ==
    CASE objective = "TotalProfit" -> metrics.net_profit
      [] objective = "SharpeRatio" -> metrics.sharpe_ratio
      [] objective = "ProfitFactor" -> metrics.profit_factor
      [] objective = "WinRate" -> metrics.win_rate_pct
      [] objective = "ReturnDdRatio" -> metrics.return_dd_ratio
      [] objective = "MinStagnation" -> 0 - metrics.stagnation_bars
      [] OTHER -> 0 - metrics.ulcer_index_pct

\* params holds the values in the order of the ranges; metrics is history: the
\* BacktestMetrics the result was built from
build_result(values, metrics, objectives) ==
    LET primary == IF objectives = <<>> THEN "SharpeRatio" ELSE objectives[1] IN
    [params           |-> values,
     objective_value  |-> extract_objective(metrics, primary),
     composite_score  |-> Frac(0, 1),
     total_return_pct |-> metrics.total_return_pct,
     sharpe_ratio     |-> metrics.sharpe_ratio,
     max_drawdown_pct |-> metrics.max_drawdown_pct,
     total_trades     |-> metrics.total_trades,
     profit_factor    |-> metrics.profit_factor,
     return_dd_ratio  |-> metrics.return_dd_ratio,
     stagnation_bars  |-> metrics.stagnation_bars,
     ulcer_index_pct  |-> metrics.ulcer_index_pct,
     oos_results      |-> <<>>,
     metrics          |-> Some(metrics)]

build_failed_result(values) ==
    [params           |-> values,
     objective_value  |-> NEG_INFINITY,
     composite_score  |-> Frac(NEG_INFINITY, 1),
     total_return_pct |-> 0,
     sharpe_ratio     |-> 0,
     max_drawdown_pct |-> 0,
     total_trades     |-> 0,
     profit_factor    |-> 0,
     return_dd_ratio  |-> 0,
     stagnation_bars  |-> 0,
     ulcer_index_pct  |-> 0,
     oos_results      |-> <<>>,
     metrics          |-> None]

extract_objective_from_result(r, obj) ==
    CASE obj = "TotalProfit" -> r.total_return_pct * 100
      [] obj = "SharpeRatio" -> r.sharpe_ratio
      [] obj = "ProfitFactor" -> r.profit_factor
      [] obj = "WinRate" -> 0
      [] obj = "ReturnDdRatio" -> r.return_dd_ratio
      [] obj = "MinStagnation" -> 0 - r.stagnation_bars
      [] OTHER -> 0 - r.ulcer_index_pct

\* the least and the greatest of a non-empty set of integers
SetMin(S) == CHOOSE x \in S : \A y \in S : x <= y

SetMax(S) == CHOOSE x \in S : \A y \in S : x >= y

\* (vals[i] - min) / range, or 0.5 when the range is 0
Normalized(vals, idx) ==
    LET lo  == SetMin({vals[k] : k \in 1 .. Len(vals)})
        hi  == SetMax({vals[k] : k \in 1 .. Len(vals)})
    IN  IF hi - lo > 0 THEN Frac(vals[idx] - lo, hi - lo) ELSE Frac(1, 2)

compute_composite_scores(results, objectives) ==
    IF results = <<>> \/ objectives = <<>>
    THEN results
    ELSE IF Len(objectives) = 1
    THEN [k \in 1 .. Len(results) |->
            [results[k] EXCEPT !.composite_score = Frac(results[k].objective_value, 1)]]
    ELSE LET raw_values == [j \in 1 .. Len(objectives) |->
                               [k \in 1 .. Len(results) |->
                                   extract_objective_from_result(results[k], objectives[j])]]
             score_sum[k \in 1 .. Len(results), j \in 0 .. Len(objectives)] ==
                 IF j = 0
                 THEN Frac(0, 1)
                 ELSE LET s == score_sum[k, j - 1]
                          x == Normalized(raw_values[j], k)
                      IN  Frac(s.n * x.d + x.n * s.d, s.d * x.d)
         IN  [k \in 1 .. Len(results) |->
                [results[k] EXCEPT !.composite_score =
                    Frac(score_sum[k, Len(objectives)].n,
                         score_sum[k, Len(objectives)].d * Len(objectives))]]

ComputeCompositeScores ==
    /\ pc = "compute_composite_scores"
    /\ ret = None
    /\ ret' = Some(compute_composite_scores(args.results, args.objectives))
    /\ UNCHANGED <<runVars, subVars, args, optVars>>

---------------------------------------------------------------------------
(* engine/optimizer.rs: the drivers *)

MAX_RESULTS == 50

\* the driver's variables at a given point, nothing evaluated yet
OptAt(point) ==
    /\ opt_pc = point
    /\ combinations = <<>>
    /\ running = {}
    /\ done = <<>>
    /\ opt_ret = None
    /\ backtests = {}
    /\ population = <<>>
    /\ gen = 0
    /\ all_results = <<>>
    /\ bred = None
    /\ best_by_gen = <<>>
    /\ cmd_results = <<>>
    /\ oos_next = 0
    /\ oos_seen = <<>>
    /\ cmd_ret = None
    /\ commands = <<>>

\* the driver at rest
OptIdle == OptAt("idle")

\* run_grid_search up to its parallel map: generate_grid(ranges)?
GridEntry ==
    /\ opt_pc = "grid_entry"
    /\ \E g \in {generate_grid(args.ranges)} :
          IF g.tag = "Ok"
          THEN /\ opt_pc' = "grid_eval"
               /\ combinations' = g.combos
               /\ opt_ret' = opt_ret
          ELSE /\ opt_pc' = "returned"
               /\ combinations' = combinations
               /\ opt_ret' = Some(g)
    /\ UNCHANGED <<runVars, subVars, fnVars, running, done, backtests, gaVars, cmdVars>>

\* what run_backtest can return for a strategy patched with the given values,
\* as the drivers see it: the metrics, or an error.  The table names how the
\* candles and the costs answer: "sum" and "low" are functions of the values
\* ("low" has too few candles for a first value of 0), "random" has random
\* slippage.  With the flag it is given set, the run may also end Cancelled.
BacktestOutcomes(table, values, flag) ==
    LET s == SeqSum(values) IN
    (CASE table = "sum" -> {[ok |-> TRUE, metrics |-> Metrics(s, values[1], 0)]}
       [] table = "low" -> IF values[1] = 0
                           THEN {[ok |-> FALSE, error |-> "InsufficientData"]}
                           ELSE {[ok |-> TRUE, metrics |-> Metrics(s, 0, values[1])]}
       [] OTHER -> {[ok |-> TRUE, metrics |-> Metrics(s + d, values[1], 0)] : d \in {0, 1}})
    \cup (IF flag THEN {[ok |-> FALSE, error |-> "Cancelled"]} ELSE {})

\* the batch of the parallel map: the combinations, or the genes of the population
Batch ==
    IF opt_pc = "grid_eval"
    THEN combinations
    ELSE [k \in 1 .. Len(population) |-> population[k].genes]

\* the closure's flag check with the check taken out
ClosureSkips_Never == FALSE

\* the closure's flag check: if cancel_flag.load(Relaxed) { return None }
ClosureSkips == cancel_flag

\* the closure of the parallel map on the k-th vector, flag found set: None
EvalSkip(k) ==
    /\ opt_pc \in {"grid_eval", "ga_eval"}
    /\ k \in 1 .. Len(Batch)
    /\ k \notin running
    /\ k \notin DOMAIN done
    /\ ClosureSkips
    /\ done' = (k :> [ran |-> FALSE, failed |-> FALSE, value |-> None]) @@ done
    /\ UNCHANGED <<runVars, subVars, fnVars, opt_pc, combinations, running, opt_ret,
                   backtests, gaVars, cmdVars>>

\* the closure on the k-th vector, flag found clear: run_backtest is called
EvalStart(k) ==
    /\ opt_pc \in {"grid_eval", "ga_eval"}
    /\ k \in 1 .. Len(Batch)
    /\ k \notin running
    /\ k \notin DOMAIN done
    /\ ~ClosureSkips
    /\ running' = running \cup {k}
    /\ backtests' = backtests \cup {[gen |-> gen, index |-> k, flag |-> cancel_flag]}
    /\ UNCHANGED <<runVars, subVars, fnVars, opt_pc, combinations, done, opt_ret,
                   gaVars, cmdVars>>

\* the closure keeping a placeholder of fitness -infinity in the grid search too
ClosureValue_Placeholder(grid, values, outcome, objectives) ==
    IF outcome.ok
    THEN LET opt_result == build_result(values, outcome.metrics, objectives) IN
         [ran |-> TRUE, failed |-> FALSE,
          value |-> Some([fitness |-> opt_result.objective_value, result |-> opt_result])]
    ELSE [ran |-> TRUE, failed |-> TRUE,
          value |-> Some([fitness |-> NEG_INFINITY, result |-> build_failed_result(values)])]

\* what the closure returns for an outcome of run_backtest: the grid skips an
\* error, the genetic algorithm keeps a placeholder of fitness -infinity
ClosureValue(grid, values, outcome, objectives) ==
    IF outcome.ok
    THEN LET opt_result == build_result(values, outcome.metrics, objectives) IN
         [ran |-> TRUE, failed |-> FALSE,
          value |-> Some([fitness |-> opt_result.objective_value, result |-> opt_result])]
    ELSE IF grid
    THEN [ran |-> TRUE, failed |-> TRUE, value |-> None]
    ELSE [ran |-> TRUE, failed |-> TRUE,
          value |-> Some([fitness |-> NEG_INFINITY, result |-> build_failed_result(values)])]

\* run_backtest returns to the closure of the k-th vector
EvalFinish(k) ==
    /\ opt_pc \in {"grid_eval", "ga_eval"}
    /\ k \in running
    /\ \E outcome \in BacktestOutcomes(args.table, Batch[k], cancel_flag) :
          done' = (k :> ClosureValue(opt_pc = "grid_eval", Batch[k], outcome, args.objectives))
                  @@ done
    /\ running' = running \ {k}
    /\ UNCHANGED <<runVars, subVars, fnVars, opt_pc, combinations, opt_ret, backtests,
                   gaVars, cmdVars>>

\* results.into_iter().flatten(): the results of the closures that returned one
Flatten(collected) ==
    LET acc[k \in 0 .. Len(collected)] ==
            IF k = 0
            THEN <<>>
            ELSE IF IsSome(collected[k].value)
                 THEN Append(acc[k - 1], Unwrap(collected[k].value).result)
                 ELSE acc[k - 1]
    IN  acc[Len(collected)]

\* the key of the final sort
SortKey(r, objectives) ==
    IF Len(objectives) > 1 THEN r.composite_score ELSE Frac(r.objective_value, 1)

\* sort_by of b against a, ascending keys first, in the place of descending
sort_by_Ascending(rs, objectives) ==
    LET sorted[k \in 0 .. Len(rs)] ==
            IF k = 0
            THEN <<>>
            ELSE LET s == sorted[k - 1]
                     p == Cardinality({j \in 1 .. Len(s) :
                             ~FracLess(SortKey(rs[k], objectives), SortKey(s[j], objectives))})
                 IN  SubSeq(s, 1, p) \o <<rs[k]>> \o SubSeq(s, p + 1, Len(s))
    IN  sorted[Len(rs)]

\* the stable sort_by, keys descending: each result goes behind the results
\* whose key is not less than its own
sort_by(rs, objectives) ==
    LET sorted[k \in 0 .. Len(rs)] ==
            IF k = 0
            THEN <<>>
            ELSE LET s == sorted[k - 1]
                     p == Cardinality({j \in 1 .. Len(s) :
                             ~FracLess(SortKey(s[j], objectives), SortKey(rs[k], objectives))})
                 IN  SubSeq(s, 1, p) \o <<rs[k]>> \o SubSeq(s, p + 1, Len(s))
    IN  sorted[Len(rs)]

\* dedup_by(|a, b| a.params == b.params): a result goes when the one before it
\* has its params
dedup_by(rs) ==
    LET kept[k \in 0 .. Len(rs)] ==
            IF k = 0
            THEN <<>>
            ELSE IF k > 1 /\ rs[k].params = rs[k - 1].params
                 THEN kept[k - 1]
                 ELSE Append(kept[k - 1], rs[k])
    IN  kept[Len(rs)]

truncate(rs, n) == SubSeq(rs, 1, Min2(Len(rs), n))

\* if cancel_flag.load(Relaxed) { return Err(OptimizationCancelled) }
CancelledAfterMap == cancel_flag

\* run_grid_search behind its parallel map, which returns when every closure has
GridCollect ==
    /\ opt_pc = "grid_eval"
    /\ DOMAIN done = 1 .. Len(combinations)
    /\ opt_pc' = "returned"
    /\ IF CancelledAfterMap
       THEN opt_ret' = Some([tag |-> "OptimizationCancelled"])
       ELSE \E valid \in {Flatten(done)} :
            \E scored \in {compute_composite_scores(valid, args.objectives)} :
            \E sorted \in {sort_by(scored, args.objectives)} :
               opt_ret' = Some([tag |-> "Ok", results |-> truncate(sorted, MAX_RESULTS)])
    /\ UNCHANGED <<runVars, subVars, fnVars, combinations, running, done, backtests,
                   gaVars, cmdVars>>

\* f64::round of n / d, d > 0: halves away from zero
RoundDiv(n, d) ==
    IF n >= 0 THEN (2 * n + d) \div (2 * d) ELSE 0 - ((2 * (0 - n) + d) \div (2 * d))

snap_to_step(value, range) ==
    IF range.step <= 0
    THEN value
    ELSE LET steps   == RoundDiv(value - range.min, range.step)
             snapped == range.min + steps * range.step
         IN  Min2(Max2(snapped, range.min), range.max)

\* snap_to_step(rng.gen_range(range.min..=range.max), range), for every draw
\* that is a whole number
SnapDraws(range) == {snap_to_step(v, range) : v \in range.min .. range.max}

\* the gene vectors of the initial population
InitialGenes(rs) ==
    {g \in [1 .. Len(rs) -> UNION {SnapDraws(rs[j]) : j \in 1 .. Len(rs)}] :
        \A j \in 1 .. Len(rs) : g[j] \in SnapDraws(rs[j])}

\* run_genetic_algorithm up to its loop: the random initial population
GaEntry ==
    /\ opt_pc = "ga_entry"
    /\ IF Len(args.ranges) = 0
       THEN /\ opt_pc' = "returned"
            /\ opt_ret' = Some([tag |-> "OptimizationError"])
            /\ population' = population
       ELSE /\ opt_pc' = "ga_gen"
            /\ opt_ret' = opt_ret
            /\ population' \in [1 .. args.ga_config.population_size ->
                                  [genes : InitialGenes(args.ranges), fitness : {NEG_INFINITY}]]
    /\ UNCHANGED <<runVars, subVars, fnVars, combinations, running, done, backtests,
                   gen, all_results, bred, best_by_gen, cmdVars>>

\* the results returned behind the loop: scored, sorted, deduplicated, truncated
GaResults(rs, objectives) ==
    truncate(dedup_by(sort_by(compute_composite_scores(rs, objectives), objectives)),
             MAX_RESULTS)

\* the head of the loop over the generations: the flag check of the generation
GaGenStart ==
    /\ opt_pc = "ga_gen"
    /\ IF gen >= args.ga_config.generations
       THEN /\ opt_pc' = "returned"
            /\ opt_ret' = Some([tag |-> "Ok", results |-> GaResults(all_results, args.objectives)])
       ELSE IF cancel_flag
       THEN /\ opt_pc' = "returned"
            /\ opt_ret' = Some([tag |-> "OptimizationCancelled"])
       ELSE /\ opt_pc' = "ga_eval"
            /\ opt_ret' = opt_ret
    /\ UNCHANGED <<runVars, subVars, fnVars, combinations, running, done, backtests,
                   gaVars, cmdVars>>

\* the picks of one tournament: the first, then each later pick if strictly fitter
tournament_select(pop, picks) ==
    LET b1 == picks[1]
        b2 == IF pop[picks[2]].fitness > pop[b1].fitness THEN picks[2] ELSE b1
        b3 == IF pop[picks[3]].fitness > pop[b2].fitness THEN picks[3] ELSE b2
    IN  b3

crossover(parent1, parent2, point) ==
    <<SubSeq(parent1, 1, point) \o SubSeq(parent2, point + 1, Len(parent2)),
      SubSeq(parent2, 1, point) \o SubSeq(parent1, point + 1, Len(parent1))>>

\* what mutate can leave in the genes: each gene as it is, or a new snapped draw
mutate(genes, rs) ==
    {g \in [1 .. Len(genes) -> UNION {SnapDraws(rs[j]) \cup {genes[j]} : j \in 1 .. Len(genes)}] :
        \A j \in 1 .. Len(genes) : g[j] \in SnapDraws(rs[j]) \cup {genes[j]}}

\* the pairs of children one turn of the breeding loop can produce
ChildPairs(pop, rs) ==
    LET n       == Len(pop)
        parents == {pop[tournament_select(pop, picks)].genes : picks \in [1 .. 3 -> 1 .. n]}
        crossed == UNION {
                      {<<p1, p2>>} \cup
                      (IF Len(rs) > 1
                       THEN {crossover(p1, p2, point) : point \in 1 .. Len(rs) - 1}
                       ELSE {}) : p1 \in parents, p2 \in parents}
    IN  UNION {{<<c1, c2>> : c1 \in mutate(pair[1], rs), c2 \in mutate(pair[2], rs)} :
                  pair \in crossed}

\* the elite with the first individual in the place of the fittest
best_idx_First(pop) == 1

\* max_by on the fitness: of the fittest individuals, the last
best_idx(pop) ==
    CHOOSE k \in 1 .. Len(pop) :
        /\ \A j \in 1 .. Len(pop) : pop[j].fitness <= pop[k].fitness
        /\ \A j \in k + 1 .. Len(pop) : pop[j].fitness < pop[k].fitness

\* the children pushed behind the elite until next_pop has pop_size individuals:
\* both children of a turn, the second only while there is room
RECURSIVE Children(_, _, _)
Children(pop, rs, room) ==
    IF room <= 0
    THEN {<<>>}
    ELSE IF room = 1
    THEN {<<[genes |-> pair[1], fitness |-> NEG_INFINITY]>> : pair \in ChildPairs(pop, rs)}
    ELSE {<<[genes |-> pair[1], fitness |-> NEG_INFINITY],
            [genes |-> pair[2], fitness |-> NEG_INFINITY]>> \o rest :
              pair \in ChildPairs(pop, rs), rest \in Children(pop, rs, room - 2)}

\* the populations the breeding can produce
Breed(pop, rs, pop_size) ==
    {<<pop[best_idx(pop)]>> \o kids : kids \in Children(pop, rs, pop_size - 1)}

\* the population with the fitness of every evaluation
Evaluated(pop, collected) ==
    [k \in 1 .. Len(pop) |->
        IF IsSome(collected[k].value)
        THEN [pop[k] EXCEPT !.fitness = Unwrap(collected[k].value).fitness]
        ELSE pop[k]]

\* the results pushed to all_results: those of a fitness above -infinity
Pushed(collected) ==
    LET acc[k \in 0 .. Len(collected)] ==
            IF k = 0
            THEN <<>>
            ELSE IF IsSome(collected[k].value)
                    /\ Unwrap(collected[k].value).fitness > NEG_INFINITY
                 THEN Append(acc[k - 1], Unwrap(collected[k].value).result)
                 ELSE acc[k - 1]
    IN  acc[Len(collected)]

\* one generation behind its parallel map: the flag check, the fitness update,
\* and either the breeding of the next population or, behind the last
\* generation, the results
GaCollect ==
    /\ opt_pc = "ga_eval"
    /\ DOMAIN done = 1 .. Len(population)
    /\ IF CancelledAfterMap
       THEN /\ opt_pc' = "returned"
            /\ opt_ret' = Some([tag |-> "OptimizationCancelled"])
            /\ UNCHANGED <<done, gaVars>>
       ELSE \E evaluated \in {Evaluated(population, done)} :
            \E pushed \in {all_results \o Pushed(done)} :
               /\ all_results' = pushed
               /\ best_by_gen' = Append(best_by_gen,
                      SetMax({evaluated[k].fitness : k \in 1 .. Len(evaluated)}))
               /\ IF gen + 1 >= args.ga_config.generations
                  THEN /\ opt_pc' = "returned"
                       /\ \E scored \in {compute_composite_scores(pushed, args.objectives)} :
                          \E sorted \in {sort_by(scored, args.objectives)} :
                             opt_ret' = Some([tag     |-> "Ok",
                                              results |-> truncate(dedup_by(sorted),
                                                                   MAX_RESULTS)])
                       /\ population' = evaluated
                       /\ UNCHANGED <<done, gen, bred>>
                  ELSE \E next_pop \in Breed(evaluated, args.ranges,
                                             args.ga_config.population_size) :
                       /\ opt_pc' = "ga_gen"
                       /\ opt_ret' = opt_ret
                       /\ population' = next_pop
                       /\ bred' = Some([from |-> evaluated, to |-> next_pop])
                       /\ gen' = gen + 1
                       /\ done' = <<>>
    /\ UNCHANGED <<runVars, subVars, fnVars, combinations, running, backtests, cmdVars>>

\* cancel_optimization, from another thread
OptCancelSet ==
    /\ opt_pc \notin {"idle", "returned"}
    /\ ~cancel_flag
    /\ cancel_flag' = TRUE
    /\ UNCHANGED <<pc, strategy, config, data, total_bars, i, candle, position, equity,
                   peak_equity, trades, equity_curve, drawdown_curve, daily_trade_count,
                   current_date, opened, obs, poll_at_set>>
    /\ UNCHANGED <<subVars, fnVars, optVars>>

\* the two drivers, their workers, and the cancel request of another thread
NextOpt ==
    \/ GridEntry
    \/ GaEntry
    \/ GaGenStart
    \/ \E k \in 1 .. Len(Batch) : EvalSkip(k)
    \/ \E k \in 1 .. Len(Batch) : EvalStart(k)
    \/ \E k \in 1 .. Len(Batch) : EvalFinish(k)
    \/ GridCollect
    \/ GaCollect
    \/ OptCancelSet

---------------------------------------------------------------------------
(* commands.rs: run_optimization behind the primary search *)

OosResult(label, metrics) ==
    [label            |-> label,
     total_return_pct |-> metrics.total_return_pct,
     sharpe_ratio     |-> metrics.sharpe_ratio,
     max_drawdown_pct |-> metrics.max_drawdown_pct,
     profit_factor    |-> metrics.profit_factor,
     total_trades     |-> metrics.total_trades]

\* the OosResult pushed for a period without candles and for a failed backtest
ZeroOosResult(label) ==
    [label            |-> label,
     total_return_pct |-> 0,
     sharpe_ratio     |-> 0,
     max_drawdown_pct |-> 0,
     profit_factor    |-> 0,
     total_trades     |-> 0]

\* the out-of-sample backtests given the shared flag in the place of no_cancel
OosFlag_Shared == cancel_flag

\* let no_cancel = AtomicBool::new(false): the flag the out-of-sample backtests poll
OosFlag == FALSE

\* the OosResult one period can give a result of the given params
OosOutcomes(period, param_values, flag) ==
    IF period.empty
    THEN {ZeroOosResult(period.label)}
    ELSE {IF outcome.ok
          THEN OosResult(period.label, outcome.metrics)
          ELSE ZeroOosResult(period.label) :
             outcome \in BacktestOutcomes(period.table, param_values, flag)}

\* the oos_results of one result: one OosResult per entry of oos_data, in order
OosResults(oos_data, param_values, flag) ==
    {rs \in [1 .. Len(oos_data) ->
                UNION {OosOutcomes(oos_data[p], param_values, flag) : p \in 1 .. Len(oos_data)}] :
        \A p \in 1 .. Len(oos_data) : rs[p] \in OosOutcomes(oos_data[p], param_values, flag)}

\* the ? on what the driver returned, and the test in front of the loop
OosEntry ==
    /\ opt_pc = "returned"
    /\ IsSome(opt_ret)
    /\ cmd_ret = None
    /\ oos_next = 0
    /\ IF Unwrap(opt_ret).tag # "Ok"
       THEN /\ cmd_ret' = Some([tag |-> Unwrap(opt_ret).tag])
            /\ UNCHANGED <<cmd_results, oos_next>>
       ELSE /\ cmd_results' = Unwrap(opt_ret).results
            /\ IF args.oos_data # <<>> /\ Unwrap(opt_ret).results # <<>>
               THEN /\ oos_next' = 1
                    /\ cmd_ret' = cmd_ret
               ELSE /\ oos_next' = oos_next
                    /\ cmd_ret' = Some([tag |-> "Ok", results |-> Unwrap(opt_ret).results])
    /\ UNCHANGED <<runVars, subVars, fnVars, opt_pc, combinations, running, done, opt_ret,
                   backtests, gaVars, oos_seen, commands>>

\* one turn of the loop over the results: the backtest of every period
OosEvaluate ==
    /\ cmd_ret = None
    /\ oos_next \in 1 .. Len(cmd_results)
    /\ \E oos_results \in OosResults(args.oos_data, cmd_results[oos_next].params, OosFlag) :
          cmd_results' = [cmd_results EXCEPT ![oos_next].oos_results = oos_results]
    /\ oos_seen' = Append(oos_seen, cancel_flag)
    /\ oos_next' = oos_next + 1
    /\ UNCHANGED <<runVars, subVars, fnVars, opt_pc, combinations, running, done, opt_ret,
                   backtests, gaVars, cmd_ret, commands>>

\* Ok(results) behind the loop
OosReturn ==
    /\ cmd_ret = None
    /\ oos_next > Len(cmd_results)
    /\ cmd_ret' = Some([tag |-> "Ok", results |-> cmd_results])
    /\ UNCHANGED <<runVars, subVars, fnVars, opt_pc, combinations, running, done, opt_ret,
                   backtests, gaVars, cmd_results, oos_next, oos_seen, commands>>

\* cancel_optimization, from another thread, once the driver has returned
OosCancelSet ==
    /\ opt_pc = "returned"
    /\ cmd_ret = None
    /\ ~cancel_flag
    /\ cancel_flag' = TRUE
    /\ UNCHANGED <<pc, strategy, config, data, total_bars, i, candle, position, equity,
                   peak_equity, trades, equity_curve, drawdown_curve, daily_trade_count,
                   current_date, opened, obs, poll_at_set>>
    /\ UNCHANGED <<subVars, fnVars, optVars>>

\* run_optimization from the call of the driver to its return
NextCmd ==
    \/ NextOpt
    \/ OosEntry
    \/ OosEvaluate
    \/ OosReturn
    \/ OosCancelSet

---------------------------------------------------------------------------
(* The strategies and series of the model *)

NoCosts ==
    [spread_pips |-> 0, commission_type |-> "FixedPerLot", commission_value |-> 0,
     slippage_pips |-> 0, slippage_random |-> FALSE]

\* long and short entries and exits, no risk block, no session limits
BaseStrategy ==
    [trade_direction  |-> "Both",
     has_long_entry   |-> TRUE,
     has_short_entry  |-> TRUE,
     has_long_exit    |-> TRUE,
     has_short_exit   |-> TRUE,
     indicator        |-> None,
     offset           |-> 0,
     position_sizing  |-> [sizing_type |-> "FixedLots", value |-> 1],
     stop_loss        |-> None,
     take_profit      |-> None,
     trailing_stop    |-> None,
     trading_costs    |-> NoCosts,
     trading_hours    |-> None,
     max_daily_trades |-> None,
     close_trades_at  |-> None]

\* the base strategy with its direction, rule lists and warm-up varied
RuleStrategies ==
    {[BaseStrategy EXCEPT !.trade_direction = d, !.has_long_entry = r[1],
                          !.has_short_entry = r[2], !.has_long_exit = r[3],
                          !.has_short_exit = r[3], !.indicator = w[1], !.offset = w[2]] :
        d \in {"Long", "Short", "Both"},
        r \in {<<TRUE, TRUE, TRUE>>, <<TRUE, FALSE, FALSE>>, <<FALSE, FALSE, FALSE>>},
        w \in {<<None, 0>>, <<Some(2), 0>>, <<Some(2), 1>>}}

\* the base strategy with a risk block: stop-loss, take-profit, trailing stop
RiskStrategies ==
    {[BaseStrategy EXCEPT !.stop_loss = sl, !.take_profit = tp, !.trailing_stop = ts] :
        sl \in {None, Some([sl_type |-> "Pips", value |-> 1])},
        tp \in {None, Some([tp_type |-> "Pips", value |-> 1])},
        ts \in {None, Some([ts_type |-> "RiskReward", value |-> 1])}}

\* the base strategy with session limits
SessionStrategies ==
    {[BaseStrategy EXCEPT !.max_daily_trades = md, !.close_trades_at = ca,
                          !.trading_hours = th] :
        md \in {None, Some(0), Some(1)},
        ca \in {None, Some([hour |-> 12, minute |-> 0])},
        th \in {None, Some([start_hour |-> 12, start_minute |-> 0,
                            end_hour |-> 0, end_minute |-> 0])}}

\* the base strategy with trading costs
CostStrategies ==
    {[BaseStrategy EXCEPT !.trading_costs = tc] :
        tc \in {[NoCosts EXCEPT !.spread_pips = 1],
                [NoCosts EXCEPT !.slippage_pips = 1],
                [NoCosts EXCEPT !.commission_value = 1]}}

\* no rules at all: no position is ever opened
IdleStrategy ==
    [BaseStrategy EXCEPT !.has_long_entry = FALSE, !.has_short_entry = FALSE,
                         !.has_long_exit = FALSE, !.has_short_exit = FALSE]

\* candles of every shape over the prices 1..MaxPrice, a quarter of a day or a day apart
FullData == [steps |-> {360, 1440}, prices |-> 1 .. MaxPrice]

\* daily candles over two prices
DailyData == [steps |-> {1440}, prices |-> {1, 2}]

\* flat candles, a quarter of a day or a day apart
FlatData == [steps |-> {360, 1440}, prices |-> {1}]

\* the run's variables at a given point, for the given arguments
RunAt(point, strats, capitals, lens, series) ==
    /\ pc = point
    /\ strategy \in strats
    /\ config \in [initial_capital : capitals]
    /\ data \in series
    /\ total_bars \in lens
    /\ cancel_flag = FALSE
    /\ candle = [dt |-> 0, open |-> 1, high |-> 1, low |-> 1, close |-> 1]
    /\ position = None
    /\ equity = 0
    /\ peak_equity = 0
    /\ trades = <<>>
    /\ equity_curve = <<>>
    /\ drawdown_curve = <<>>
    /\ daily_trade_count = 0
    /\ current_date = None
    /\ opened = <<>>
    /\ obs = [bar |-> 0, had_position |-> FALSE, resolver |-> None, time_due |-> FALSE,
              rules_true |-> FALSE, n_trades |-> 0, n_opened |-> 0, rndx |-> 0,
              trail |-> <<>>]
    /\ poll_at_set = 0

\* the state before run_backtest is entered, for the given arguments
InitRun(strats, capitals, lens, series) ==
    /\ RunAt("start", strats, capitals, lens, series)
    /\ i = 0
    /\ tf_ts = <<>>
    /\ sub_ts = <<>>
    /\ sub_mode = "None"
    /\ sub_cursor = 0
    /\ ranges = <<>>
    /\ OptIdle
    /\ args = <<>>
    /\ ret = <<>>

\* the bar loop: rules, directions, warm-up and costs on daily candles
Init == InitRun(RuleStrategies \cup CostStrategies, {10}, 0 .. MaxBars, {DailyData})

Next == NextRun

Spec == Init /\ [][Next]_vars

\* the exits of an open position: the risk block and the forced close
InitExit ==
    InitRun({[s EXCEPT !.close_trades_at = ca] :
                s \in RiskStrategies, ca \in {None, Some([hour |-> 12, minute |-> 0])}},
            {1}, {ExitBars}, {FullData})

SpecExit == InitExit /\ [][NextLoop]_vars

\* the session limits on flat candles
InitSession == InitRun(SessionStrategies, {10}, 0 .. MaxBars, {FlatData})

SpecSession == InitSession /\ [][NextLoop]_vars

\* cancellation: long series of flat daily candles, a strategy without rules
CancelLens == {2, PollInterval, PollInterval + 1, 2 * PollInterval + 1}

InitCancel == InitRun({IdleStrategy}, {10}, CancelLens, {[steps |-> {1440}, prices |-> {1}]})

SpecCancel == InitCancel /\ [][NextRun]_vars

\* the strictly increasing sequences over 0..MaxTs of length 1..MaxTf
TfSeries ==
    {s \in UNION {[1 .. n -> 0 .. MaxTs] : n \in 1 .. MaxTf} :
        \A k \in 1 .. (Len(s) - 1) : s[k] < s[k + 1]}

\* every sequence over 0..MaxTs of length 0..MaxSubs, sorted or not
SubSeries == UNION {[1 .. n -> 0 .. MaxTs] : n \in 0 .. MaxSubs}

\* the loop's sub-bar cursor from start_bar on, over any TF and sub-bar series
InitSubbar ==
    /\ tf_ts \in TfSeries
    /\ sub_ts \in SubSeries
    /\ sub_mode \in {"None", "Candles", "Ticks"}
    /\ sub_cursor = 0
    /\ ranges = <<>>
    /\ OptIdle
    /\ args = <<>>
    /\ ret = <<>>
    /\ \E n \in 1 .. MaxTf, w \in {<<None, 0>>, <<Some(2), 0>>} :
          /\ n = Len(tf_ts)
          /\ RunAt("subbars", {[BaseStrategy EXCEPT !.indicator = w[1], !.offset = w[2]]},
                   {10}, {n}, {FlatData})
    /\ i = start_bar_of(strategy, total_bars)

SpecSubbar == InitSubbar /\ [][SubStep]_vars

\* check_sl_tp_hit on every position and well-formed candle over 0..MaxLevel
InitSlTp ==
    /\ RunAt("check_sl_tp_hit", {BaseStrategy}, {10}, {0}, {FlatData})
    /\ i = 0
    /\ tf_ts = <<>>
    /\ sub_ts = <<>>
    /\ sub_mode = "None"
    /\ sub_cursor = 0
    /\ ranges = <<>>
    /\ OptIdle
    /\ args \in [pos    : [direction   : {"Long", "Short"},
                            stop_loss   : {None} \cup {Some(x) : x \in 0 .. MaxLevel},
                            take_profit : {None} \cup {Some(x) : x \in 0 .. MaxLevel}],
                  candle : Ohlc(0 .. MaxLevel)]
    /\ ret = None

SpecSlTp == InitSlTp /\ [][CheckSlTp]_vars

\* the base strategy with fixed and with random slippage of up to two pips
SlippageStrategies ==
    {[BaseStrategy EXCEPT !.trading_costs = [NoCosts EXCEPT !.slippage_pips = sp,
                                                             !.slippage_random = sr]] :
        sp \in 0 .. 2, sr \in BOOLEAN}

\* one entry candle and one exit candle, for both directions
InitTwice ==
    /\ RunAt("twice", {BaseStrategy}, {10}, {3}, {DailyData})
    /\ i = 0
    /\ tf_ts = <<>>
    /\ sub_ts = <<>>
    /\ sub_mode = "None"
    /\ sub_cursor = 0
    /\ ranges = <<>>
    /\ OptIdle
    /\ args \in [strategy  : SlippageStrategies \cup CostStrategies,
                  direction : {"Long", "Short"},
                  equity    : {10},
                  entry     : {[dt |-> 1440, open |-> q, high |-> q, low |-> q, close |-> q] :
                                   q \in 1 .. MaxPrice},
                  exit      : {[dt |-> 2880, open |-> q, high |-> q, low |-> q, close |-> q] :
                                   q \in 1 .. MaxPrice}]
    /\ ret = None

SpecTwice == InitTwice /\ [][TradeTwice]_vars

\* the rules over two bars: a series of 0s and 1s, a comparator, a connector
RuleSet ==
    [left_operand     : {Operand("Indicator", series, None, 0) : series \in [1 .. 2 -> {0, 1}]},
     right_operand    : {Operand("Constant", <<>>, None, 0)},
     comparator       : {"GreaterThan", "CrossAbove"},
     logical_operator : {None, Some("And"), Some("Or")}]

\* evaluate_rules on every list of at most MaxRules rules, at either bar
InitRules ==
    /\ RunAt("evaluate_rules", {BaseStrategy}, {10}, {2}, {DailyData})
    /\ i = 0
    /\ tf_ts = <<>>
    /\ sub_ts = <<>>
    /\ sub_mode = "None"
    /\ sub_cursor = 0
    /\ ranges = <<>>
    /\ OptIdle
    /\ args \in [rules       : UNION {[1 .. n -> RuleSet] : n \in 0 .. MaxRules},
                  bar_index   : {0, 1},
                  candles_len : {2},
                  time_offset : {0}]
    /\ ret = None

SpecRules == InitRules /\ [][EvaluateRules]_vars

\* the operands of the single-rule specification: on the left a series with
\* NaNs, of an indicator or of the time cache, read at the bar or one bar back;
\* on the right a constant or a series
LeftOperands ==
    {Operand(type, values, offset, 0) :
        type \in {"Indicator", "BarTime"},
        values \in [1 .. RuleBars -> {F64_NAN, 0, 1}],
        offset \in {None, Some(1)}}

RightOperands ==
    {Operand("Constant", <<>>, offset, c) : offset \in {None, Some(1)}, c \in {0, 1}}
    \cup {Operand("Price", values, None, 0) : values \in [1 .. RuleBars -> {0, 1}]}

Comparators ==
    {"GreaterThan", "LessThan", "GreaterOrEqual", "LessOrEqual", "Equal", "CrossAbove",
     "CrossBelow"}

\* evaluate_single_rule on every such rule, at every bar and one bar behind the last
InitSingleRule ==
    /\ RunAt("evaluate_single_rule", {BaseStrategy}, {10}, {2}, {DailyData})
    /\ i = 0
    /\ tf_ts = <<>>
    /\ sub_ts = <<>>
    /\ sub_mode = "None"
    /\ sub_cursor = 0
    /\ ranges = <<>>
    /\ OptIdle
    /\ args \in [rule        : [left_operand : LeftOperands, right_operand : RightOperands,
                                comparator : Comparators, logical_operator : {None}],
                  bar_index   : 0 .. RuleBars,
                  candles_len : {RuleBars},
                  time_offset : {0, 1}]
    /\ ret = None

SpecSingleRule == InitSingleRule /\ [][EvaluateSingleRule]_vars

ParameterRange(lo, hi, st) == [min |-> lo, max |-> hi, step |-> st]

\* every range over 0 .. MaxParam, step 0 and min > max included
SmallRanges ==
    {ParameterRange(lo, hi, st) : lo \in 0 .. MaxParam, hi \in 0 .. MaxParam, st \in 0 .. MaxParam}

\* the range lists around the limit of 500 000 and past the largest usize
LimitRanges ==
    { <<ParameterRange(1, MAX_COMBINATIONS, 1)>>,
      <<ParameterRange(1, MAX_COMBINATIONS + 1, 1)>>,
      <<ParameterRange(0, 999, 1), ParameterRange(1, 1000, 2)>>,
      <<ParameterRange(0, 999, 1), ParameterRange(1, 501, 1)>>,
      <<ParameterRange(1, 2000, 1), ParameterRange(1, 2000, 1)>> }

\* the run's variables while the optimizer works
RunParked ==
    /\ RunAt("parked", {IdleStrategy}, {10}, {2}, {DailyData})
    /\ i = 0
    /\ tf_ts = <<>>
    /\ sub_ts = <<>>
    /\ sub_mode = "None"
    /\ sub_cursor = 0
    /\ ranges = <<>>
    /\ ret = None

\* run_grid_search entered with every small list of ranges and the lists at the limit
InitGrid ==
    /\ RunParked
    /\ args \in [ranges : UNION {[1 .. n -> SmallRanges] : n \in 0 .. MaxRanges}
                            \cup LimitRanges]
    /\ OptAt("grid_entry")

SpecGrid == InitGrid /\ [][GridEntry]_vars

\* compute_composite_scores on the results built from every list of metrics,
\* for every list of objectives
InitScores ==
    /\ RunAt("compute_composite_scores", {BaseStrategy}, {10}, {2}, {DailyData})
    /\ i = 0
    /\ tf_ts = <<>>
    /\ sub_ts = <<>>
    /\ sub_mode = "None"
    /\ sub_cursor = 0
    /\ ranges = <<>>
    /\ OptIdle
    /\ \E objectives \in UNION {[1 .. n -> ObjectiveFunction] : n \in 0 .. MaxObjectives} :
       \E ms \in UNION {[1 .. n -> MetricsSet] : n \in 0 .. MaxResults} :
          args = [objectives |-> objectives,
                  results    |-> [k \in 1 .. Len(ms) |-> build_result(<<k>>, ms[k], objectives)]]
    /\ ret = None

SpecScores == InitScores /\ [][ComputeCompositeScores]_vars

\* the ranges of the drivers: one range whose max is on its grid, one whose max
\* is not (0, 3 and then 5), and two ranges
DriverRanges ==
    { <<ParameterRange(0, 1, 1)>>,
      <<ParameterRange(0, 5, 3)>>,
      <<ParameterRange(0, 1, 1), ParameterRange(0, 1, 1)>> }

\* run_grid_search or run_genetic_algorithm entered, the flag clear: every
\* driver range, table and population up to MaxPop, and one larger population
\* on the single range
InitOpt ==
    /\ RunParked
    /\ \E method \in {"GridSearch", "GeneticAlgorithm"} :
          /\ \/ args \in [method     : {method},
                          ranges     : DriverRanges,
                          objectives : {<<"TotalProfit">>, <<"TotalProfit", "SharpeRatio">>},
                          ga_config  : [population_size : 1 .. MaxPop,
                                        generations     : 1 .. MaxGen],
                          table      : {"sum", "low", "random"}]
             \/ /\ method = "GeneticAlgorithm"
                /\ args \in [method     : {method},
                             ranges     : {<<ParameterRange(0, 1, 1)>>},
                             objectives : {<<"TotalProfit">>},
                             ga_config  : [population_size : {MaxPop + 1},
                                           generations     : {MaxGen}],
                             table      : {"sum"}]
          /\ OptAt(IF method = "GridSearch" THEN "grid_entry" ELSE "ga_entry")

SpecOpt == InitOpt /\ [][NextOpt]_vars

\* what the closures of a batch can have returned once all have: a result
\* for metrics of the model, or a failure
ClosureValues(grid, values, objectives) ==
    {ClosureValue(grid, values, [ok |-> TRUE, metrics |-> Metrics(a, b, 0)], objectives) :
        a \in 0 .. MaxMetric, b \in 0 .. MaxMetric}
    \cup {ClosureValue(grid, values, [ok |-> FALSE, error |-> "InsufficientData"], objectives)}

\* the k-th of n backtests made the net profit (7 k) mod 5 and the Sharpe ratio
\* k mod 3
LongBatch(grid, batch, objectives) ==
    [k \in 1 .. Len(batch) |->
        ClosureValue(grid, batch[k], [ok |-> TRUE, metrics |-> Metrics((7 * k) % 5, k % 3, 0)],
                     objectives)]

\* the batches a closure each of which has returned can leave behind
Collected(grid, batch, objectives) ==
    {collected \in [1 .. Len(batch) ->
                       UNION {ClosureValues(grid, batch[k], objectives) : k \in 1 .. Len(batch)}] :
        \A k \in 1 .. Len(batch) : collected[k] \in ClosureValues(grid, batch[k], objectives)}

\* the backtests of a batch, all of them started with the flag clear
Started(g, n) == {[gen |-> g, index |-> k, flag |-> FALSE] : k \in 1 .. n}

RankObjectives == {<<"TotalProfit">>, <<"TotalProfit", "SharpeRatio">>}

\* run_grid_search with every closure of its parallel map returned, the flag
\* clear: a grid of up to MaxResults vectors with any results, and grids of about
\* MAX_RESULTS vectors
InitRankGrid ==
    /\ \E objectives \in RankObjectives :
       \E n \in (1 .. MaxResults) \cup (MAX_RESULTS - 1 .. MAX_RESULTS + 2) :
          /\ args = [method |-> "GridSearch", ranges |-> <<ParameterRange(1, n, 1)>>,
                     objectives |-> objectives,
                     ga_config |-> [population_size |-> 1, generations |-> 1],
                     table |-> "random"]
          /\ combinations = generate_grid(args.ranges).combos
          /\ IF n <= MaxResults
             THEN done \in Collected(TRUE, combinations, objectives)
             ELSE done = LongBatch(TRUE, combinations, objectives)
          /\ backtests = Started(0, n)
    /\ opt_pc = "grid_eval"
    /\ gen = 0
    /\ population = <<>>
    /\ all_results = <<>>
    /\ bred = None
    /\ best_by_gen = <<>>

\* run_genetic_algorithm behind the parallel map of the second of two
\* generations, the flag clear: a first population of any genes with any
\* results, the population bred from it, and any results for that
InitRankGa ==
    /\ \E objectives \in RankObjectives :
       \E first \in [1 .. MaxPop -> [genes : InitialGenes(<<ParameterRange(0, 1, 1)>>),
                                     fitness : {NEG_INFINITY}]] :
       \E earlier \in Collected(FALSE, [k \in 1 .. MaxPop |-> first[k].genes], objectives) :
       \E evaluated \in {Evaluated(first, earlier)} :
       \E next_pop \in Breed(evaluated, <<ParameterRange(0, 1, 1)>>, MaxPop) :
          /\ args = [method |-> "GeneticAlgorithm", ranges |-> <<ParameterRange(0, 1, 1)>>,
                     objectives |-> objectives,
                     ga_config |-> [population_size |-> MaxPop, generations |-> 2],
                     table |-> "random"]
          /\ population = next_pop
          /\ all_results = Pushed(earlier)
          /\ bred = Some([from |-> evaluated, to |-> next_pop])
          /\ best_by_gen = <<SetMax({evaluated[k].fitness : k \in 1 .. Len(evaluated)})>>
          /\ done \in Collected(FALSE, [k \in 1 .. MaxPop |-> next_pop[k].genes], objectives)
    /\ gen = 1
    /\ backtests = Started(0, MaxPop) \cup Started(1, MaxPop)
    /\ opt_pc = "ga_eval"
    /\ combinations = <<>>

\* run_genetic_algorithm behind the parallel map of its only generation, the
\* flag clear: a population of about MAX_RESULTS individuals, the genes of the
\* initial draw all different or some of them drawn twice
InitRankGaLong ==
    /\ \E objectives \in RankObjectives :
       \E n \in MAX_RESULTS - 1 .. MAX_RESULTS + 2 :
       \E distinct \in {n, MAX_RESULTS - 10} :
          /\ args = [method |-> "GeneticAlgorithm",
                     ranges |-> <<ParameterRange(1, n, 1)>>,
                     objectives |-> objectives,
                     ga_config |-> [population_size |-> n, generations |-> 1],
                     table |-> "random"]
          /\ population = [k \in 1 .. n |-> [genes   |-> <<((k - 1) % distinct) + 1>>,
                                             fitness |-> NEG_INFINITY]]
          /\ done = LongBatch(FALSE, [k \in 1 .. n |-> <<((k - 1) % distinct) + 1>>],
                              objectives)
          /\ backtests = Started(0, n)
    /\ gen = 0
    /\ all_results = <<>>
    /\ bred = None
    /\ best_by_gen = <<>>
    /\ opt_pc = "ga_eval"
    /\ combinations = <<>>

\* either driver behind the parallel map of its last batch
InitRank ==
    /\ RunParked
    /\ InitRankGrid \/ InitRankGa \/ InitRankGaLong
    /\ running = {}
    /\ opt_ret = None
    /\ cmd_results = <<>>
    /\ oos_next = 0
    /\ oos_seen = <<>>
    /\ cmd_ret = None
    /\ commands = <<>>

SpecRank == InitRank /\ [][GridCollect \/ GaCollect]_vars

\* the out-of-sample periods: with candles or without, and how the backtest on
\* the candles answers
OosPeriods ==
    {[label |-> "", empty |-> TRUE, table |-> "sum"]}
    \cup {[label |-> "", empty |-> FALSE, table |-> t] : t \in {"sum", "low"}}

OosData ==
    UNION {{[p \in 1 .. n |-> [periods[p] EXCEPT !.label = p]] : periods \in [1 .. n -> OosPeriods]} :
              n \in 0 .. MaxOos}

\* run_optimization at the call of the driver, the flag reset, the candles of
\* every out-of-sample period loaded
InitOos ==
    /\ RunParked
    /\ \E method \in {"GridSearch", "GeneticAlgorithm"} :
          /\ args \in [method     : {method},
                       ranges     : {<<>>, <<ParameterRange(0, 1, 1)>>},
                       objectives : {<<"TotalProfit">>},
                       ga_config  : [population_size : {MaxPop}, generations : {1}],
                       table      : {"sum", "low"},
                       oos_data   : OosData]
          /\ OptAt(IF method = "GridSearch" THEN "grid_entry" ELSE "ga_entry")

SpecOos == InitOos /\ [][NextCmd]_vars

---------------------------------------------------------------------------
(* The properties *)

\* C1: at most one position is open at any point of the bar loop.  Every
\* position opened but the last has been closed, a position is open between
\* two bars exactly when one more position was opened than closed, and the
\* [entry_bar, exit_bar] spans of successive trades do not overlap: the next
\* position opens at the earliest on the bar on which the previous one closed.
C1_OnePosition ==
    /\ Len(trades) <= Len(opened)
    /\ Len(opened) <= Len(trades) + 1
    /\ pc = "loop" => (IsSome(position) <=> Len(opened) = Len(trades) + 1)
    /\ \A k \in 1 .. Len(trades) :
          /\ trades[k].entry_bar = opened[k].bar
          /\ trades[k].entry_bar <= trades[k].exit_bar
    /\ \A k \in 1 .. (Len(opened) - 1) :
          /\ k <= Len(trades)
          /\ trades[k].exit_bar <= opened[k + 1].bar

\* a trade that opened on the bar on which the trade before it closed
C1_Witness ==
    /\ Len(trades) >= 2
    /\ trades[1].exit_bar = trades[2].entry_bar
    /\ trades[1].entry_bar < trades[1].exit_bar

\* C2 as stated: once the cancel flag is set the run does not complete with Ok
C2_NeverOkOnceSet == ~(pc = "ok" /\ cancel_flag)

\* C2, amended: a run whose cancel flag is set returns Cancelled at the first
\* bar index at or after the setting that is a multiple of 1000, never passes
\* such a bar, and completes with Ok only when no such bar is left before the
\* end of the series.
C2_CancelledAtNextPoll ==
    /\ pc = "cancelled" => cancel_flag /\ i = poll_at_set /\ i < total_bars
    /\ (pc = "loop" /\ cancel_flag) => i <= poll_at_set
    /\ (pc = "ok" /\ cancel_flag) => poll_at_set >= total_bars

\* the flag set after the poll of bar 1000, the run cancelled at bar 2000
C2_Witness ==
    /\ pc = "cancelled"
    /\ i = 2 * PollInterval
    /\ poll_at_set = i

\* C3: on a bar with an open position exactly one of, in this order: the
\* SL/TP resolver triggers and the position is closed at its price, time and
\* reason; else the time of day is at or after close_trades_at and it is closed
\* at the candle close with TimeClose; else the exit rules of its own direction
\* are true and it is closed at the candle close with Signal; else it stays
\* open.  No position has two TradeResults.
C3_ExitOrder ==
    /\ (pc = "loop" /\ obs.had_position) =>
          LET n == Len(trades) - obs.n_trades
              t == Last(trades)
              ClosedWith(price, time, reason) ==
                  /\ n = 1
                  /\ ~IsSome(position) \/ Unwrap(position).entry_bar = obs.bar
                  /\ t.close_reason = reason
                  /\ t.exit_price = apply_exit_costs(price, t.direction,
                                                     strategy.trading_costs, Instrument,
                                                     obs.rndx)
                  /\ t.exit_time = time
                  /\ t.exit_bar = obs.bar
          IN  IF IsSome(obs.resolver)
              THEN /\ Unwrap(obs.resolver).reason \in {"StopLoss", "TakeProfit"}
                   /\ ClosedWith(Unwrap(obs.resolver).price, Unwrap(obs.resolver).time,
                                 Unwrap(obs.resolver).reason)
              ELSE IF obs.time_due
                   THEN ClosedWith(candle.close, candle.dt, "TimeClose")
                   ELSE IF obs.rules_true
                        THEN ClosedWith(candle.close, candle.dt, "Signal")
                        ELSE /\ n = 0
                             /\ IsSome(position)
                             /\ Len(opened) = obs.n_opened
    /\ \A j, k \in 1 .. Len(trades) : j < k => trades[j].entry_bar < trades[k].entry_bar

\* a bar on which close_trades_at and the exit rules both apply: TimeClose
C3_Witness ==
    /\ pc = "loop"
    /\ obs.had_position
    /\ ~IsSome(obs.resolver)
    /\ obs.time_due
    /\ obs.rules_true
    /\ Last(trades).close_reason = "TimeClose"

\* C4: check_sl_tp_hit on one candle.  The stop-loss fills at the open when
\* the open is at or beyond the stop level and at the level otherwise, the
\* take-profit fills at its level; with both hit the fill closer to the open
\* wins, the stop-loss on a tie; with one hit that one; with none there is no
\* exit.
C4_SlTpFill ==
    IsSome(ret) =>
        LET pos    == args.pos
            c      == args.candle
            long   == pos.direction = "Long"
            sl     == Unwrap(pos.stop_loss)
            tp     == Unwrap(pos.take_profit)
            sl_hit == IsSome(pos.stop_loss) /\ (IF long THEN c.low <= sl ELSE c.high >= sl)
            tp_hit == IsSome(pos.take_profit) /\ (IF long THEN c.high >= tp ELSE c.low <= tp)
            gap    == IF long THEN c.open <= sl ELSE c.open >= sl
            sl_out == Some([price |-> IF gap THEN c.open ELSE sl, reason |-> "StopLoss"])
            tp_out == Some([price |-> tp, reason |-> "TakeProfit"])
        IN  Unwrap(ret) =
                IF sl_hit /\ tp_hit
                THEN (IF Abs(c.open - Unwrap(sl_out).price) <= Abs(c.open - tp)
                      THEN sl_out ELSE tp_out)
                ELSE IF sl_hit THEN sl_out
                ELSE IF tp_hit THEN tp_out
                ELSE None

\* both levels hit at the same distance from the open: the stop-loss
C4_Witness ==
    /\ IsSome(ret)
    /\ IsSome(args.pos.stop_loss)
    /\ IsSome(args.pos.take_profit)
    /\ args.pos.direction = "Long"
    /\ args.candle.low <= Unwrap(args.pos.stop_loss)
    /\ args.candle.high >= Unwrap(args.pos.take_profit)
    /\ args.candle.open - Unwrap(args.pos.stop_loss)
           = Unwrap(args.pos.take_profit) - args.candle.open
    /\ args.candle.open > Unwrap(args.pos.stop_loss)
    /\ Unwrap(ret) = Some([price |-> Unwrap(args.pos.stop_loss), reason |-> "StopLoss"])

\* C5: when run_backtest returns Ok every position opened has its
\* TradeResult, in bar order; a position open after the last bar is closed at
\* the last candle's close and time with EndOfData, and no trade but the last
\* has that reason.
C5_ClosedAtEnd ==
    pc = "ok" =>
        /\ Len(trades) = Len(opened)
        /\ \A k \in 1 .. Len(trades) : trades[k].entry_bar = opened[k].bar
        /\ \A k \in 1 .. (Len(trades) - 1) :
              /\ trades[k].exit_bar <= trades[k + 1].exit_bar
              /\ trades[k].close_reason # "EndOfData"
        /\ IF IsSome(position)
           THEN /\ trades # <<>>
                /\ Last(trades).close_reason = "EndOfData"
                /\ Last(trades).entry_bar = Unwrap(position).entry_bar
                /\ Last(trades).exit_bar = total_bars - 1
                /\ Last(trades).exit_time = candle.dt
                /\ \E rnd \in RandomSlippage(strategy.trading_costs, Instrument) :
                      Last(trades).exit_price =
                          apply_exit_costs(candle.close, Unwrap(position).direction,
                                           strategy.trading_costs, Instrument, rnd)
           ELSE \A k \in 1 .. Len(trades) : trades[k].close_reason # "EndOfData"

\* an Ok run whose second position was still open after the last bar
C5_Witness ==
    /\ pc = "ok"
    /\ Len(trades) = 2
    /\ trades[1].close_reason = "Signal"
    /\ trades[2].close_reason = "EndOfData"
    /\ IsSome(position)

\* C6: one equity point and one drawdown point for each bar from start_bar =
\* min(max_lookback(strategy), total_bars) on, in bar order: the two curves have
\* the same length and timestamps, i - start_bar in the loop and
\* total_bars - start_bar when the run returns Ok.
C6_CurveLengths ==
    LET start_bar == Min2(max_lookback(strategy), total_bars) IN
    /\ pc \in {"loop", "ok"} =>
          /\ Len(equity_curve) = i - start_bar
          /\ Len(drawdown_curve) = Len(equity_curve)
    /\ pc = "ok" => Len(equity_curve) = total_bars - start_bar
    /\ \A k \in 1 .. Len(equity_curve) :
          equity_curve[k].timestamp = drawdown_curve[k].timestamp
    /\ \A k \in 1 .. (Len(equity_curve) - 1) :
          equity_curve[k].timestamp < equity_curve[k + 1].timestamp

\* an Ok run over four candles with a warm-up of three bars: one point
C6_Witness ==
    /\ pc = "ok"
    /\ total_bars = MaxBars
    /\ max_lookback(strategy) = 3
    /\ Len(equity_curve) = MaxBars - 3

\* C7 as stated: a one-candle input with any strategy returns Ok with no
\* trades and an equity curve of one point
C7_SinglePoint ==
    (total_bars = 1 /\ pc \notin {"start", "loop"}) =>
        /\ pc = "ok"
        /\ trades = <<>>
        /\ Len(equity_curve) = 1

\* C7, amended: on a one-candle input start_bar = 1 = total_bars, so the loop
\* body never runs: the run is never cancelled, it fails when the indicators
\* cannot be computed on one candle, and otherwise returns Ok with no trades
\* and empty equity and drawdown curves.
C7_OneCandle ==
    (total_bars = 1 /\ pc \notin {"start", "loop"}) =>
        /\ pc = IF pre_compute_indicators_ok(strategy, 1) THEN "ok" ELSE "err_indicator"
        /\ trades = <<>>
        /\ opened = <<>>
        /\ equity_curve = <<>>
        /\ drawdown_curve = <<>>

\* an Ok run of a strategy with rules on one candle
C7_Witness ==
    /\ total_bars = 1
    /\ pc = "ok"
    /\ HasRules(strategy)
    /\ equity_curve = <<>>

\* C8 as stated: every drawdown point has 0 <= drawdown_pct <= 100
C8_DrawdownRange ==
    \A k \in 1 .. Len(drawdown_curve) :
        /\ drawdown_curve[k].drawdown_pct.num >= 0
        /\ drawdown_curve[k].drawdown_pct.num <= 100 * drawdown_curve[k].drawdown_pct.den

\* C9: the cursor never decreases and never exceeds the sub-bar count; every
\* range has start <= end; the range of a bar starts at or after the end of the
\* range of the bar before it; and when the sub-bars' timestamps do not
\* decrease, every sub-bar of the range of bar i is at or after candles[i] and
\* before candles[i+1], the range of the last bar reaching the end.
C9_SubbarRanges ==
    LET SubsSorted == \A k \in 1 .. (Len(sub_ts) - 1) : sub_ts[k] <= sub_ts[k + 1] IN
    /\ sub_cursor <= Len(sub_ts)
    /\ \A k \in 1 .. Len(ranges) :
          /\ ranges[k].start <= ranges[k].end
          /\ ranges[k].end <= Len(sub_ts)
          /\ (IF k = 1 THEN 0 ELSE ranges[k - 1].cursor) <= ranges[k].cursor
    /\ ranges # <<>> => sub_cursor = Last(ranges).cursor
    /\ \A k \in 1 .. (Len(ranges) - 1) : ranges[k + 1].start >= ranges[k].end
    /\ (SubsSorted /\ sub_mode # "None") =>
          \A k \in 1 .. Len(ranges) :
              LET bar == ranges[k].bar IN
              /\ \A j \in (ranges[k].start + 1) .. ranges[k].end :
                    /\ tf_ts[bar + 1] <= sub_ts[j]
                    /\ bar + 1 < total_bars => sub_ts[j] < tf_ts[bar + 2]
              /\ bar + 1 = total_bars => ranges[k].end = Len(sub_ts)

\* sorted ticks: one skipped before the first bar's range, one in each of two
\* successive bars
C9_Witness ==
    /\ sub_mode = "Ticks"
    /\ Len(ranges) = 2
    /\ Len(sub_ts) = 3
    /\ \A k \in 1 .. 2 : sub_ts[k] <= sub_ts[k + 1]
    /\ ranges[1].start = 1
    /\ ranges[1].end = 2
    /\ ranges[2].start = 2
    /\ ranges[2].end = 3

\* C10: with max_daily_trades = N at most N positions are opened on the bars
\* of one calendar date, and the counter that the entry block reads is the
\* number of positions opened on the date it holds: it restarts from zero on
\* a new date, also after a position held across the date change.
C10_DailyLimit ==
    LET OpenedOn(d) == Cardinality({k \in 1 .. Len(opened) : opened[k].date = d}) IN
    /\ IsSome(strategy.max_daily_trades) =>
          \A k \in 1 .. Len(opened) :
              OpenedOn(opened[k].date) <= Unwrap(strategy.max_daily_trades)
    /\ IF IsSome(current_date)
       THEN daily_trade_count = OpenedOn(Unwrap(current_date))
       ELSE daily_trade_count = 0 /\ opened = <<>>

\* N = 1: a position held across a date change, closed on the new date, and
\* the new date's one position opened on the same bar
C10_Witness ==
    /\ strategy.max_daily_trades = Some(1)
    /\ Len(opened) = 2
    /\ Len(trades) >= 1
    /\ opened[1].date < opened[2].date
    /\ DateOf(trades[1].exit_time) = opened[2].date
    /\ trades[1].exit_bar = opened[2].bar
    /\ daily_trade_count = 1

\* C11 as stated: the same input processed twice gives the same TradeResult,
\* every field of it, its id included, under any trading-cost setting
C11_SameTrades ==
    IsSome(ret) => Unwrap(ret)[1] = Unwrap(ret)[2]

\* C20: evaluate_rules is false on the empty list; on a non-empty list it is
\* the strict left fold ((r0 op0 r1) op1 r2) ... of the rules' values at the
\* one bar index, op_i being the connector of rule i (And when absent), the
\* connector of the last rule playing no part.
C20_LeftFold ==
    IsSome(ret) =>
        LET rules == args.rules
            n     == Len(rules)
            r(k)  == evaluate_single_rule(rules[k], args.bar_index, args.candles_len,
                                          args.time_offset)
            op(k) == IF rules[k].logical_operator = Some("Or") THEN "Or" ELSE "And"
            Join(o, a, b) == IF o = "Or" THEN a \/ b ELSE a /\ b
        IN  Unwrap(ret) =
                CASE n = 0 -> FALSE
                  [] n = 1 -> r(1)
                  [] n = 2 -> Join(op(1), r(1), r(2))
                  [] n = 3 -> Join(op(2), Join(op(1), r(1), r(2)), r(3))
                  [] OTHER -> Join(op(3), Join(op(2), Join(op(1), r(1), r(2)), r(3)), r(4))

\* r0 Or r1 And r2 with r0 true and r2 false: false, where And-over-Or
\* precedence would give true; the last rule's connector is Or
C20_Witness ==
    /\ IsSome(ret)
    /\ Len(args.rules) = 3
    /\ args.rules[1].logical_operator = Some("Or")
    /\ args.rules[2].logical_operator = Some("And")
    /\ args.rules[3].logical_operator = Some("Or")
    /\ evaluate_single_rule(args.rules[1], args.bar_index, args.candles_len, args.time_offset)
    /\ ~evaluate_single_rule(args.rules[3], args.bar_index, args.candles_len, args.time_offset)
    /\ Unwrap(ret) = FALSE

\* C17 (as stated): generate_grid returns TooManyCombinations{count, limit =
\* 500 000} exactly when the product of the per-range value counts exceeds
\* 500 000, with count equal to that product, and otherwise one combination for
\* each element of the cartesian product of the value lists min, min+step, ...
\* up to max, for every list of ranges with positive steps.
C17_ProductOrGrid ==
    (opt_pc # "grid_entry" /\ \A j \in 1 .. Len(args.ranges) : args.ranges[j].step > 0) =>
        LET rs == args.ranges
            n  == Len(rs)
            count(r) == Cardinality({m \in 0 .. r.max - r.min : r.min + m * r.step <= r.max})
            product[j \in 0 .. n] == IF j = 0 THEN 1 ELSE product[j - 1] * count(rs[j])
        IN  IF product[n] > 500000
            THEN opt_ret = Some([tag |-> "TooManyCombinations", count |-> product[n],
                                 limit |-> 500000])
            ELSE /\ opt_ret = None
                 /\ Len(combinations) = product[n]

\* C17 (amended): an empty list of ranges, or a step <= 0, is an
\* OptimizationError.  Otherwise a range counts its values min, min+step, ...
\* up to max, and one value (min) when min > max; TooManyCombinations{count,
\* limit = 500 000} is returned exactly when the product of the counts exceeds
\* 500 000 (500 000 itself is accepted), count being the product saturated at
\* the largest usize, and run_grid_search then has no combination to evaluate.
\* Otherwise the combinations are the elements of the cartesian product of the
\* value lists, each once, the j-th entry coming from range j.
C17_Grid ==
    opt_pc # "grid_entry" =>
        LET rs == args.ranges
            n  == Len(rs)
            count(r) == IF r.min > r.max
                        THEN 1
                        ELSE Cardinality({m \in 0 .. r.max - r.min :
                                              r.min + m * r.step <= r.max})
            product[j \in 0 .. n] == IF j = 0 THEN 1 ELSE product[j - 1] * count(rs[j])
            InList(v, r) == IF r.min > r.max
                            THEN v = r.min
                            ELSE v >= r.min /\ v <= r.max /\ (v - r.min) % r.step = 0
        IN  IF n = 0 \/ \E j \in 1 .. n : rs[j].step <= 0
            THEN /\ opt_pc = "returned"
                 /\ opt_ret = Some([tag |-> "OptimizationError"])
                 /\ combinations = <<>>
            ELSE IF product[n] > 500000
            THEN /\ opt_pc = "returned"
                 /\ opt_ret = Some([tag |-> "TooManyCombinations",
                                    count |-> Min2(product[n], USIZE_MAX),
                                    limit |-> 500000])
                 /\ combinations = <<>>
                 /\ running = {}
                 /\ backtests = {}
            ELSE /\ opt_pc = "grid_eval"
                 /\ opt_ret = None
                 /\ Len(combinations) = product[n]
                 /\ Cardinality({combinations[k] : k \in 1 .. Len(combinations)}) = product[n]
                 /\ \A k \in 1 .. Len(combinations) :
                        /\ Len(combinations[k]) = n
                        /\ \A j \in 1 .. n : InList(combinations[k][j], rs[j])

\* one range of 500 001 values, one more than the limit: rejected with the count
C17_Witness ==
    /\ opt_pc = "returned"
    /\ Len(args.ranges) = 1
    /\ opt_ret = Some([tag |-> "TooManyCombinations", count |-> MAX_COMBINATIONS + 1,
                       limit |-> MAX_COMBINATIONS])
    /\ combinations = <<>>

\* C19: after compute_composite_scores with two or more objectives every
\* composite_score lies in [0, 1] and is the mean, over the objectives, of the
\* min-max normalised value that extract_objective defines for the objective
\* (0.5 where all results agree); with one objective it is objective_value.
C19_CompositeMean ==
    (IsSome(ret) /\ args.results # <<>>) =>
        LET objectives == args.objectives
            results    == Unwrap(ret)
            n          == Len(results)
            value(k, j) == extract_objective(Unwrap(results[k].metrics), objectives[j])
            lo(j) == SetMin({value(k, j) : k \in 1 .. n})
            hi(j) == SetMax({value(k, j) : k \in 1 .. n})
            norm(k, j) == IF hi(j) > lo(j)
                          THEN Frac(value(k, j) - lo(j), hi(j) - lo(j))
                          ELSE Frac(1, 2)
            \* the mean of one or two quotients, and of three
            mean(k) == IF Len(objectives) = 2
                       THEN Frac(norm(k, 1).n * norm(k, 2).d + norm(k, 2).n * norm(k, 1).d,
                                 2 * norm(k, 1).d * norm(k, 2).d)
                       ELSE Frac(norm(k, 1).n * norm(k, 2).d * norm(k, 3).d
                                   + norm(k, 2).n * norm(k, 1).d * norm(k, 3).d
                                   + norm(k, 3).n * norm(k, 1).d * norm(k, 2).d,
                                 3 * norm(k, 1).d * norm(k, 2).d * norm(k, 3).d)
        IN  \A k \in 1 .. n :
               IF Len(objectives) >= 2
               THEN /\ ~FracLess(results[k].composite_score, Frac(0, 1))
                    /\ ~FracLess(Frac(1, 1), results[k].composite_score)
                    /\ FracEq(results[k].composite_score, mean(k))
               ELSE Len(objectives) = 1 =>
                        results[k].composite_score = Frac(results[k].objective_value, 1)

C13_PlaceholderInBoth ==
    \A k \in DOMAIN done :
        done[k].failed =>
            /\ IsSome(done[k].value)
            /\ Unwrap(done[k].value).fitness = NEG_INFINITY

\* C13 (amended): a failed run_backtest is dropped by the closure of
\* run_grid_search (None) and turned into a placeholder of fitness -infinity by
\* the closure of run_genetic_algorithm, which the individual keeps as its
\* fitness; in neither driver does it end the batch: with the flag clear every
\* vector of the batch is evaluated and the driver returns Ok, and no failed
\* evaluation is in the returned list.
C13_FailureKeepsBatch ==
    /\ \A k \in DOMAIN done :
          done[k].failed =>
              IF args.method = "GridSearch"
              THEN done[k].value = None
              ELSE done[k].value = Some([fitness |-> NEG_INFINITY,
                                         result  |-> build_failed_result(population[k].genes)])
    /\ (opt_pc = "returned" /\ ~cancel_flag) =>
          /\ Unwrap(opt_ret).tag = "Ok"
          /\ DOMAIN done = 1 .. Len(combinations) + Len(population)
          /\ \A k \in DOMAIN done : done[k].ran
          /\ \A g \in 0 .. gen : \A k \in DOMAIN done :
                [gen |-> g, index |-> k, flag |-> FALSE] \in backtests
          /\ \A k \in 1 .. Len(Unwrap(opt_ret).results) :
                Unwrap(opt_ret).results[k].objective_value > NEG_INFINITY
          /\ args.method = "GridSearch" =>
                Len(Unwrap(opt_ret).results) =
                    Cardinality({k \in DOMAIN done : ~done[k].failed})

\* a driver that returned Ok although one backtest of its last batch failed,
\* the list holding the result of another
C13_Witness ==
    /\ opt_pc = "returned"
    /\ IsSome(opt_ret)
    /\ Unwrap(opt_ret).tag = "Ok"
    /\ \E k \in DOMAIN done : done[k].failed
    /\ \E k \in DOMAIN done : ~done[k].failed
    /\ Unwrap(opt_ret).results # <<>>

\* C15: with population_size >= 1, the population bred behind a non-final
\* generation has exactly population_size individuals, and its first is an
\* individual of the evaluated population of the highest fitness, genes
\* unchanged; when the fitness is a function of the genes, the best fitness of a
\* generation is never below that of the generation before.
C15_Elitism ==
    /\ IsSome(bred) =>
          LET from == Unwrap(bred).from
              to   == Unwrap(bred).to
          IN  /\ Len(to) = args.ga_config.population_size
              /\ Len(from) = args.ga_config.population_size
              /\ \E k \in 1 .. Len(from) : to[1] = from[k]
              /\ \A k \in 1 .. Len(from) : from[k].fitness <= to[1].fitness
    /\ args.table \in {"sum", "low"} =>
          \A g \in 1 .. Len(best_by_gen) - 1 : best_by_gen[g] <= best_by_gen[g + 1]

\* the second generation evaluated: its elite was not the first individual of
\* the first generation, and it is again the best
C15_Witness ==
    /\ IsSome(bred)
    /\ args.table = "sum"
    /\ Len(best_by_gen) = 2
    /\ Unwrap(bred).from[1].fitness < Unwrap(bred).to[1].fitness
    /\ best_by_gen[2] = Unwrap(bred).to[1].fitness

\* C16: every gene of every individual of every generation lies in
\* [range.min, range.max] and is range.min + k * range.step for an integer
\* k >= 0, for every range with step > 0 and min <= max.
C16_GenesOnStep ==
    \A k \in 1 .. Len(population) :
        \A j \in 1 .. Len(args.ranges) :
            LET range == args.ranges[j]
                gene  == population[k].genes[j]
            IN  (range.step > 0 /\ range.min <= range.max) =>
                    /\ range.min <= gene
                    /\ gene <= range.max
                    /\ \E m \in 0 .. range.max - range.min : gene = range.min + m * range.step

C18_OosNotPreempted ==
    (opt_pc = "returned" /\ Unwrap(opt_ret).tag = "Ok" /\ IsSome(cmd_ret)) =>
        LET found  == Unwrap(opt_ret).results
            answer == Unwrap(cmd_ret)
        IN  /\ answer.tag = "Ok"
            /\ Len(answer.results) = Len(found)
            /\ \A k \in 1 .. Len(found) :
                  /\ [answer.results[k] EXCEPT !.oos_results = <<>>] = found[k]
                  /\ Len(answer.results[k].oos_results) = Len(args.oos_data)
                  /\ \A p \in 1 .. Len(args.oos_data) :
                        LET period == args.oos_data[p]
                            oos    == answer.results[k].oos_results[p]
                        IN  /\ oos.label = period.label
                            /\ period.empty => oos = ZeroOosResult(period.label)
                            /\ ~period.empty =>
                                  \E outcome \in BacktestOutcomes(period.table, found[k].params,
                                                                  FALSE) :
                                     oos = IF outcome.ok
                                           THEN OosResult(period.label, outcome.metrics)
                                           ELSE ZeroOosResult(period.label)

\* the flag set before the first result was evaluated: the command returned two
\* results, each with the OosResult of a backtest, of a failed one and of a
\* period without candles among them
C18_Witness ==
    /\ opt_pc = "returned"
    /\ IsSome(cmd_ret)
    /\ Unwrap(cmd_ret).tag = "Ok"
    /\ cancel_flag
    /\ Len(Unwrap(cmd_ret).results) = 2
    /\ oos_seen = <<TRUE, TRUE>>
    /\ Len(args.oos_data) = 2
    /\ args.oos_data[1].empty
    /\ ~args.oos_data[2].empty
    /\ Unwrap(cmd_ret).results[1].oos_results[2].total_trades = 1
    /\ Unwrap(cmd_ret).results[2].oos_results[2] = ZeroOosResult(2)

\* C21: a single rule is false whenever either operand is NaN at the bar (an
\* offset reaching before bar 0 included).  CrossAbove is true at bar i iff both
\* operands are numbers at i and at i-1, left <= right at i-1 and left > right
\* at i: false at bar 0, and never true at two consecutive bars.  CrossBelow is
\* the mirror image.
C21_CrossRule ==
    IsSome(ret) =>
        LET rule == args.rule
            n    == args.candles_len
            t    == args.time_offset
            bar  == args.bar_index
            L(b) == resolve_operand(rule.left_operand, b, n, t)
            R(b) == resolve_operand(rule.right_operand, b, n, t)
            numbers(b) == L(b) # F64_NAN /\ R(b) # F64_NAN
            before_bar_0(o) == IsSome(o.offset) /\ Unwrap(o.offset) > bar
                               /\ (o.operand_type # "BarTime" \/ t = 0)
        IN  /\ ~numbers(bar) => ~Unwrap(ret)
            /\ (before_bar_0(rule.left_operand) \/ before_bar_0(rule.right_operand)) =>
                  ~Unwrap(ret)
            /\ rule.comparator = "CrossAbove" =>
                  /\ Unwrap(ret) <=> /\ bar > 0
                                     /\ numbers(bar)
                                     /\ numbers(bar - 1)
                                     /\ L(bar - 1) <= R(bar - 1)
                                     /\ L(bar) > R(bar)
                  /\ bar = 0 => ~Unwrap(ret)
                  /\ Unwrap(ret) => ~evaluate_single_rule(rule, bar + 1, n, t)
            /\ rule.comparator = "CrossBelow" =>
                  /\ Unwrap(ret) <=> /\ bar > 0
                                     /\ numbers(bar)
                                     /\ numbers(bar - 1)
                                     /\ L(bar - 1) >= R(bar - 1)
                                     /\ L(bar) < R(bar)
                  /\ bar = 0 => ~Unwrap(ret)
                  /\ Unwrap(ret) => ~evaluate_single_rule(rule, bar + 1, n, t)

\* a CrossAbove true at bar 1, the left operand still above the right at bar 2
C21_Witness ==
    /\ IsSome(ret)
    /\ Unwrap(ret)
    /\ args.rule.comparator = "CrossAbove"
    /\ args.bar_index = 1
    /\ args.rule.left_operand.values = <<0, 1, 1>>
    /\ args.rule.left_operand.offset = None
    /\ args.rule.right_operand.operand_type = "Constant"
    /\ args.rule.right_operand.constant_value = 0


---------------------------------------------------------------------------
(* The trailing stop over the life of a position, in every precision mode *)

\* a stop-loss one pip away and a take-profit two pips away, the stop trailed at one or at three times that distance
TrailStrategies ==
    {[BaseStrategy EXCEPT !.has_long_exit = FALSE, !.has_short_exit = FALSE,
                          !.stop_loss = Some([sl_type |-> "Pips", value |-> 1]),
                          !.take_profit = Some([tp_type |-> "Pips", value |-> 2]),
                          !.trailing_stop = Some([ts_type |-> "RiskReward", value |-> v])] :
        v \in {1, 3}}

InitTrail ==
    /\ RunAt("start", TrailStrategies, {10}, {ExitBars},
             {[steps |-> {1440}, prices |-> 1 .. MaxPrice]})
    /\ i = 0
    /\ tf_ts = <<>>
    /\ sub_ts = <<>>
    /\ sub_mode \in {"None", "Candles", "Ticks"}
    /\ sub_cursor = 0
    /\ ranges = <<>>
    /\ OptIdle
    /\ args = <<>>
    /\ ret = <<>>

SpecTrail == InitTrail /\ [][NextLoop]_vars

\* from p to q the stop and the extremes move in the position's favour only
Tightens(p, q) ==
    /\ q.highest_since_entry >= p.highest_since_entry
    /\ q.lowest_since_entry <= p.lowest_since_entry
    /\ IsSome(p.stop_loss) =>
          /\ IsSome(q.stop_loss)
          /\ IF IsLongSide(p.direction)
             THEN Unwrap(q.stop_loss) >= Unwrap(p.stop_loss)
             ELSE Unwrap(q.stop_loss) <= Unwrap(p.stop_loss)

\* C22: over the life of a position, whatever the precision mode, the stored
\* stop-loss of a long position never decreases and that of a short one never
\* increases, highest_since_entry never decreases and lowest_since_entry never
\* increases: from one step of a bar's update to the next, and from the bar
\* that left the position to the bar that finds it.
C22_TrailingTightens ==
    /\ \A k \in 1 .. (Len(obs.trail) - 1) : Tightens(obs.trail[k], obs.trail[k + 1])
    /\ (pc = "loop" /\ obs.had_position /\ obs.n_opened = Len(opened) /\ IsSome(position)) =>
          position = Some(obs.trail[Len(obs.trail)])

\* a long position whose stop was raised by a sub-candle or a tick, and a later
\* step that left the raised stop where it was
C22_Witness ==
    /\ sub_mode # "None"
    /\ Len(obs.trail) >= 3
    /\ IsLongSide(obs.trail[1].direction)
    /\ Unwrap(obs.trail[2].stop_loss) > Unwrap(obs.trail[1].stop_loss)
    /\ obs.trail[3].stop_loss = obs.trail[2].stop_loss

---------------------------------------------------------------------------
(* process_subbars_candle on every position and slice of sub-candles *)

\* positions entered at 2, with or without stop, target and trailing distance
SubPositions ==
    [direction              : {"Long", "Short"},
     entry_price            : {2},
     stop_loss              : {None} \cup {Some(x) : x \in 1 .. MaxPrice},
     take_profit            : {None, Some(1), Some(MaxPrice)},
     trailing_stop_distance : {None, Some(1)},
     highest_since_entry    : {2},
     lowest_since_entry     : {2},
     mae_pips               : {0},
     mfe_pips               : {0}]

InitSubCandles ==
    /\ RunAt("process_subbars_candle", {BaseStrategy}, {10}, {0}, {FlatData})
    /\ i = 0
    /\ tf_ts = <<>>
    /\ sub_ts = <<>>
    /\ sub_mode = "Candles"
    /\ sub_cursor = 0
    /\ ranges = <<>>
    /\ OptIdle
    /\ \E pos \in SubPositions :
       \E q \in UNION {[1 .. n -> Ohlc(1 .. MaxPrice)] : n \in 0 .. MaxSlice} :
          args = [pos         |-> pos,
                  sub_candles |-> [k \in 1 .. Len(q) |->
                                      [dt |-> k, open |-> q[k].open, high |-> q[k].high,
                                       low |-> q[k].low, close |-> q[k].close]],
                  start       |-> 0,
                  end         |-> Len(q)]
    /\ ret = None

SpecSubCandles == InitSubCandles /\ [][ProcessSubbarsCandle]_vars

\* the routine run on the first k sub-candles of the slice
UpTo(k) == process_subbars_candle(args.pos, args.sub_candles, args.start, k, Instrument)

\* C23 as stated: for each sub-candle the routine updates MAE/MFE and the
\* trailing stop and then calls check_sl_tp_hit, so that the check of a
\* sub-candle uses the stop already trailed with that sub-candle; the exit
\* returned is the one this order finds.
C23_TrailThenCheck ==
    (pc = "process_subbars_candle" /\ IsSome(ret)) =>
        Unwrap(ret).exit =
            process_subbars_candle_TrailFirst(args.pos, args.sub_candles, args.start,
                                              args.end, Instrument).exit

\* C23, amended: the sub-candles are processed in order; for each one the
\* routine updates MAE/MFE, then calls check_sl_tp_hit with the stop as trailed
\* by the sub-candles before it, and trails the stop with the sub-candle only
\* when the check found no exit; it stops at the first sub-candle that
\* triggers an exit, and later sub-candles do not modify the position.
C23_CheckThenTrail ==
    (pc = "process_subbars_candle" /\ IsSome(ret)) =>
        /\ Unwrap(ret) = UpTo(args.end)
        /\ \A k \in (args.start + 1) .. args.end :
              LET before == UpTo(k - 1)
                  sc     == args.sub_candles[k]
                  p1     == update_mae_mfe(before.pos, sc, Instrument)
                  hit    == check_sl_tp_hit(p1, sc)
              IN  IF IsSome(before.exit)
                  THEN UpTo(k) = before
                  ELSE IF IsSome(hit)
                  THEN UpTo(k) = [pos  |-> p1,
                                  exit |-> Some([price |-> Unwrap(hit).price, time |-> sc.dt,
                                                 reason |-> Unwrap(hit).reason])]
                  ELSE UpTo(k) = [pos |-> update_trailing_stop(p1, sc), exit |-> None]

\* a long position whose stop the first sub-candle would raise into its own
\* range: the first sub-candle triggers no exit, trails the stop, and the second
\* one is stopped out at the raised level
C23_Witness ==
    /\ pc = "process_subbars_candle"
    /\ IsSome(ret)
    /\ args.end = 2
    /\ args.pos.direction = "Long"
    /\ IsSome(args.pos.stop_loss)
    /\ ~IsSome(UpTo(1).exit)
    /\ IsSome(check_sl_tp_hit(update_trailing_stop(args.pos, args.sub_candles[1]),
                              args.sub_candles[1]))
    /\ IsSome(Unwrap(ret).exit)
    /\ Unwrap(Unwrap(ret).exit).reason = "StopLoss"
    /\ Unwrap(Unwrap(ret).exit).time = 2
    /\ Unwrap(Unwrap(ret).pos.stop_loss) > Unwrap(args.pos.stop_loss)

---------------------------------------------------------------------------
(* process_subbars_tick_columnar against the per-tick functions *)

\* every column pair of up to MaxSlice ticks, bid above ask included, a tick
\* every second and a half
InitTicks ==
    /\ RunAt("process_subbars_tick_columnar", {BaseStrategy}, {10}, {0}, {FlatData})
    /\ i = 0
    /\ tf_ts = <<>>
    /\ sub_ts = <<>>
    /\ sub_mode = "Ticks"
    /\ sub_cursor = 0
    /\ ranges = <<>>
    /\ OptIdle
    /\ \E pos \in SubPositions, d \in {"Long", "Short", "Both"} :
       \E q \in UNION {[1 .. n -> (1 .. MaxPrice) \X (1 .. MaxPrice)] : n \in 0 .. MaxSlice} :
       \E start \in 0 .. 1 :
          /\ start <= Len(q)
          /\ pos.direction = "Long"
          /\ args = [pos   |-> [pos EXCEPT !.direction = d],
                     ticks |-> [bids       |-> [k \in 1 .. Len(q) |-> q[k][1]],
                                asks       |-> [k \in 1 .. Len(q) |-> q[k][2]],
                                timestamps |-> [k \in 1 .. Len(q) |-> k * 1500000]],
                     start |-> start,
                     end   |-> Len(q)]
    /\ ret = None

SpecTicks == InitTicks /\ [][ProcessSubbarsTick]_vars

\* the per-tick functions applied to the ticks start+1 .. end in order:
\* update_mae_mfe_tick, check_tick_sl_tp, update_trailing_stop_tick, ending at
\* the first exit
PerTick(pos, ticks, start, end) ==
    LET after[k \in start .. end] ==
            IF k = start
            THEN [pos |-> pos, exit |-> None]
            ELSE IF IsSome(after[k - 1].exit)
            THEN after[k - 1]
            ELSE LET bid == ticks.bids[k]
                     ask == ticks.asks[k]
                     p1  == update_mae_mfe_tick(after[k - 1].pos, bid, ask, Instrument)
                     hit == check_tick_sl_tp(p1, bid, ask)
                 IN  IF IsSome(hit)
                     THEN [pos  |-> p1,
                           exit |-> Some([price  |-> Unwrap(hit).price,
                                          time   |-> micros_to_datetime_string(
                                                         ticks.timestamps[k]),
                                          reason |-> Unwrap(hit).reason])]
                     ELSE [pos |-> update_trailing_stop_tick(p1, bid, ask), exit |-> None]
    IN  after[end]

\* C30: the inlined tick loop leaves the position and returns the exit that
\* the per-tick functions give when applied to each tick in order
\* (update_mae_mfe_tick, then check_tick_sl_tp with the stop-loss before the
\* take-profit, then update_trailing_stop_tick, ending at the first exit); a
\* long position reads only the bids and a short one only the asks.
C30_TickLoopIsPerTick ==
    (pc = "process_subbars_tick_columnar" /\ IsSome(ret)) =>
        /\ Unwrap(ret) = PerTick(args.pos, args.ticks, args.start, args.end)
        /\ Unwrap(ret) =
              process_subbars_tick_columnar(
                  args.pos,
                  IF IsLongSide(args.pos.direction)
                  THEN [args.ticks EXCEPT !.asks = args.ticks.bids]
                  ELSE [args.ticks EXCEPT !.bids = args.ticks.asks],
                  args.start, args.end, Instrument)

\* a long position on two ticks whose asks differ from the bids: the first bid
\* raises the stop, the second bid is stopped out at the raised level
C30_Witness ==
    /\ pc = "process_subbars_tick_columnar"
    /\ IsSome(ret)
    /\ args.start = 0
    /\ args.end = 2
    /\ args.pos.direction = "Long"
    /\ IsSome(args.pos.stop_loss)
    /\ args.ticks.asks # args.ticks.bids
    /\ IsSome(Unwrap(ret).exit)
    /\ Unwrap(Unwrap(ret).exit).reason = "StopLoss"
    /\ Unwrap(Unwrap(ret).exit).time = [secs |-> 3, subsec_micros |-> 0]
    /\ Unwrap(Unwrap(ret).exit).price > Unwrap(args.pos.stop_loss)

---------------------------------------------------------------------------
(* The parameter maps of the genetic algorithm's result list *)

\* C24: the result list of the genetic algorithm holds no two entries with the
\* same parameter map, also when a vector was evaluated in several generations
\* and other vectors obtained the same score.
C24_NoDuplicateParams ==
    (opt_pc = "returned" /\ IsSome(opt_ret) /\ Unwrap(opt_ret).tag = "Ok"
     /\ args.method = "GeneticAlgorithm") =>
        LET list == Unwrap(opt_ret).results
        IN  \A j \in 1 .. Len(list) : \A k \in (j + 1) .. Len(list) :
                list[j].params # list[k].params

---------------------------------------------------------------------------
(* The cache keys of two indicators of one rule *)

\* configurations of one type: the periods absent or 14, each f64 parameter
\* absent or one of two close values (in 1/100000: 2.001 and 2.004, 0.02001
\* and 0.02004)
KeyConfigs ==
    {[indicator_type |-> "BollingerBands",
      params |-> [period |-> pr, fast_period |-> fp, slow_period |-> None,
                  signal_period |-> None, std_dev |-> sd, k_period |-> None,
                  d_period |-> None, acceleration_factor |-> af, maximum_factor |-> mf,
                  gamma |-> g, multiplier |-> mul]] :
        pr \in {None, Some(14)}, fp \in {None, Some(14)},
        sd \in {None, Some(200100), Some(200400)},
        af \in {None, Some(2001), Some(2004)},
        mf \in {None, Some(20001), Some(20004)},
        g \in {None, Some(70001), Some(70004)},
        mul \in {None, Some(300100), Some(300400)}}

ParamNames ==
    {"period", "fast_period", "std_dev", "acceleration_factor", "maximum_factor", "gamma",
     "multiplier"}

\* the two operands of a rule: any configuration, and one that differs from it
\* in at most one parameter
InitCacheKey ==
    /\ RunAt("pre_compute_indicators", {BaseStrategy}, {10}, {0}, {FlatData})
    /\ i = 0
    /\ tf_ts = <<>>
    /\ sub_ts = <<>>
    /\ sub_mode = "None"
    /\ sub_cursor = 0
    /\ ranges = <<>>
    /\ OptIdle
    /\ \E a \in KeyConfigs, b \in KeyConfigs :
          /\ Cardinality({f \in ParamNames : a.params[f] # b.params[f]}) <= 1
          /\ args = [left_operand  |-> [operand_type |-> "Indicator", indicator |-> Some(a)],
                     right_operand |-> [operand_type |-> "Indicator", indicator |-> Some(b)]]
    /\ ret = None

SpecCacheKey == InitCacheKey /\ [][PreComputeIndicators]_vars

\* C25: two indicator configurations of the same type that differ in the value
\* of a parameter never produce the same cache key, so both are computed and
\* cached.
C25_KeysDistinct ==
    (pc = "pre_compute_indicators" /\ IsSome(ret)) =>
        LET a == Unwrap(args.left_operand.indicator)
            b == Unwrap(args.right_operand.indicator)
        IN  (a.indicator_type = b.indicator_type /\ a.params # b.params) =>
                /\ cache_key(a) # cache_key(b)
                /\ Cardinality(Unwrap(ret).cache) = 2

---------------------------------------------------------------------------
(* commands.rs: the run and cancel commands on the one flag of AppState.
   The commands are async and run concurrently; everything but the flag and
   the commands is at rest. *)

RunVarsAtRest ==
    UNCHANGED <<pc, strategy, config, data, total_bars, i, candle, position, equity,
                peak_equity, trades, equity_curve, drawdown_curve, daily_trade_count,
                current_date, opened, obs, poll_at_set>>

OptVarsAtRest ==
    UNCHANGED <<opt_pc, combinations, running, done, opt_ret, backtests, gaVars,
                cmd_results, oos_next, oos_seen, cmd_ret>>

\* run_backtest and run_optimization up to the executor: "Reset cancel flag"
RunCommand ==
    /\ Len(commands) < MaxCommands
    /\ cancel_flag' = FALSE
    /\ \E kind \in {"backtest", "optimization"} :
          commands' = Append(commands, [kind |-> kind, at |-> "executing",
                                        cancel_requested |-> FALSE])
    /\ RunVarsAtRest /\ OptVarsAtRest
    /\ UNCHANGED <<subVars, fnVars>>

\* cancel_backtest and cancel_optimization: store(true); the history records
\* the request on every executing run of the command's kind
CancelCommand ==
    /\ cancel_flag' = TRUE
    /\ \E kind \in {"backtest", "optimization"} :
          /\ \E k \in 1 .. Len(commands) :
                commands[k].kind = kind /\ commands[k].at = "executing"
          /\ commands' = [k \in 1 .. Len(commands) |->
                             IF commands[k].kind = kind /\ commands[k].at = "executing"
                             THEN [commands[k] EXCEPT !.cancel_requested = TRUE]
                             ELSE commands[k]]
    /\ RunVarsAtRest /\ OptVarsAtRest
    /\ UNCHANGED <<subVars, fnVars>>

\* an executing run reads the flag set and returns its cancelled error
CommandObserves ==
    /\ cancel_flag
    /\ \E k \in 1 .. Len(commands) :
          /\ commands[k].at = "executing"
          /\ commands' = [commands EXCEPT ![k].at = "cancelled"]
    /\ RunVarsAtRest /\ OptVarsAtRest
    /\ UNCHANGED <<cancel_flag, subVars, fnVars>>

\* an executing run comes to its end with no further read of the flag
CommandReturns ==
    /\ \E k \in 1 .. Len(commands) :
          /\ commands[k].at = "executing"
          /\ commands' = [commands EXCEPT ![k].at = "returned"]
    /\ RunVarsAtRest /\ OptVarsAtRest
    /\ UNCHANGED <<cancel_flag, subVars, fnVars>>

NextCommands == RunCommand \/ CancelCommand \/ CommandObserves \/ CommandReturns

InitCommands ==
    /\ RunParked
    /\ args = <<>>
    /\ OptIdle

SpecCommands == InitCommands /\ [][NextCommands]_vars

\* C26: a cancel request issued while a run is executing stays set until that
\* run has observed it: under no interleaving of run_backtest,
\* run_optimization, cancel_backtest and cancel_optimization is the flag clear
\* while a run whose cancellation was requested is still executing.
C26_CancelStaysSet ==
    \A k \in 1 .. Len(commands) :
        (commands[k].at = "executing" /\ commands[k].cancel_requested) => cancel_flag

---------------------------------------------------------------------------
(* The end of the equity curve and the drawdown against the metrics *)

\* C27: for every successful run with a non-empty equity curve, the equity of
\* the last point of equity_curve equals metrics.final_capital, also when the
\* last trade is closed with EndOfData and the costs are not zero.
C27_CurveEndsAtFinalCapital ==
    (pc = "ok" /\ equity_curve # <<>>) =>
        equity_curve[Len(equity_curve)].equity = BacktestResults.metrics.final_capital

\* C28: for every successful run with at least one trade,
\* metrics.max_drawdown_pct equals the largest drawdown_pct of drawdown_curve,
\* also when the first recorded equity is below the initial capital.
C28_MaxDrawdownOfCurve ==
    (pc = "ok" /\ Len(trades) >= 1) =>
        /\ \A k \in 1 .. Len(drawdown_curve) :
              drawdown_curve[k].drawdown_pct.num * BacktestResults.metrics.max_drawdown_pct.d
                  <= BacktestResults.metrics.max_drawdown_pct.n
                         * drawdown_curve[k].drawdown_pct.den
        /\ \E k \in 1 .. Len(drawdown_curve) :
              drawdown_curve[k].drawdown_pct.num * BacktestResults.metrics.max_drawdown_pct.d
                  = BacktestResults.metrics.max_drawdown_pct.n
                        * drawdown_curve[k].drawdown_pct.den

---------------------------------------------------------------------------
(* The strategy rebuilt from the params of a result *)

\* a strategy with a risk block, without session limits, one long entry rule
\* and one long exit rule
PatchedStrategy ==
    LET rule == [left_operand  |-> [indicator |-> Some([params |-> [period |-> Some(14)]])],
                 right_operand |-> [indicator |-> None]]
    IN  [stop_loss        |-> Some([value |-> 1, atr_period |-> None]),
         take_profit      |-> Some([value |-> 1, atr_period |-> None]),
         trailing_stop    |-> None,
         trading_hours    |-> None,
         close_trades_at  |-> None,
         long_entry_rules |-> <<rule>>,
         short_entry_rules |-> <<>>,
         long_exit_rules  |-> <<rule>>,
         short_exit_rules |-> <<>>]

\* ranges on five parameters, under one of two display names
PatchRanges ==
    {[rule_index |-> t[1], param_name |-> t[2], operand_side |-> t[3],
      param_source |-> t[4], display_name |-> d] :
        t \in {<<0, "value", "left", "stop_loss">>, <<0, "value", "left", "take_profit">>,
               <<0, "hour", "left", "close_trades_at">>,
               <<0, "period", "left", "long_entry">>,
               <<1, "period", "either", "indicator">>},
        d \in {"Value", "Period"}}

InitParams ==
    /\ RunAt("apply_params", {BaseStrategy}, {10}, {0}, {FlatData})
    /\ i = 0
    /\ tf_ts = <<>>
    /\ sub_ts = <<>>
    /\ sub_mode = "None"
    /\ sub_cursor = 0
    /\ ranges = <<>>
    /\ OptIdle
    /\ \E n \in 0 .. MaxRanges :
          args \in [strategy : {PatchedStrategy}, ranges : [1 .. n -> PatchRanges],
                    values : [1 .. n -> {2, 20, 30}]]
    /\ ret = None

SpecParams == InitParams /\ [][RebuildStrategy]_vars

\* C29: rebuilding the value vector from the params of a result by each
\* range's display_name and applying apply_params again yields the strategy
\* that was evaluated, for every list of ranges, ranges that share a
\* display_name included.
C29_RebuiltStrategyIsEvaluated ==
    (pc = "apply_params" /\ IsSome(ret)) => Unwrap(ret).modified = Unwrap(ret).evaluated
====
